---- MODULE Spec2Model ----
\* Per-trade risk management bot (src/bot.js): the monitoring loop
\* (startMonitoring), one evaluation cycle per account (monitorAccount) and the
\* block / unblock state kept in the account document.
EXTENDS Integers, Sequences, FiniteSets, TLC

\* ---------------------------------------------------------------------------
\* Bounds of the model
\* ---------------------------------------------------------------------------
\* last instant of the modelled clock
MaxTime == 3
\* largest number of open positions a snapshot holds
MaxPos == 2

\* ---------------------------------------------------------------------------
\* Values
\* ---------------------------------------------------------------------------
\* absent value of a Date field / Map entry (null, undefined)
NULL == -1
\* length of a calendar day in clock units
DayLen == 2

\* accounts: the documents loadActiveAccounts returns, in order
accounts == <<"A", "B">>
Accounts == {accounts[i] : i \in 1..Len(accounts)}
Symbols == {"S1", "S2"}

\* riskParams / initialBalance of the account documents found in the store
\* (initialBalance 0: not set yet)
Typical ==
  [dailyDrawdownLimit |-> 5, maxDrawdownLimit |-> 20, maxLeverage |-> 20,
   maxOpenTrades |-> 1, initialBalance |-> 100]
Negated ==
  [dailyDrawdownLimit |-> -5, maxDrawdownLimit |-> -20, maxLeverage |-> 20,
   maxOpenTrades |-> 0, initialBalance |-> 100]
CfgChoices ==
  { [a \in Accounts |-> IF a = "A" THEN Typical ELSE Negated] }

\* balances the exchange may report
Balances == {80, 100, 120}

\* positions the exchange may report (ccxt position structure: the fields the
\* bot reads; 0 stands for an absent / falsy field)
PositionSet ==
  { [symbol |-> "S1", side |-> "long", leverage |-> 1, entryPrice |-> 100,
     markPrice |-> 94, percentage |-> 0, timestamp |-> 3, datetime |-> 0],
    [symbol |-> "S1", side |-> "short", leverage |-> 25, entryPrice |-> 100,
     markPrice |-> 100, percentage |-> -7, timestamp |-> 1, datetime |-> 0],
    [symbol |-> "S2", side |-> "long", leverage |-> 1, entryPrice |-> 100,
     markPrice |-> 100, percentage |-> 0, timestamp |-> 0, datetime |-> 2],
    [symbol |-> "S1", side |-> "long", leverage |-> 1, entryPrice |-> 100,
     markPrice |-> 103, percentage |-> 3, timestamp |-> 2, datetime |-> 0],
    [symbol |-> "S2", side |-> "short", leverage |-> 1, entryPrice |-> 100,
     markPrice |-> 106, percentage |-> 0, timestamp |-> 0, datetime |-> 0] }

\* the accounts another writer of the Account collection blocks
Blockable == {"A"}

\* the positions an account trades: account A both symbols, the others S1
Market(a) ==
  IF a = "A" THEN PositionSet ELSE {p \in PositionSet : p.symbol = "S1"}

\* the position lists a fetch may return for an account: no position twice
Snapshots(a) ==
  { s \in UNION { [1..n -> Market(a)] : n \in 0..MaxPos } :
      \A i, j \in DOMAIN s : s[i] = s[j] => i = j }

Abs(x) == IF x < 0 THEN -x ELSE x

VARIABLES
  now,        \* the wall clock (new Date())
  db,         \* the Account collection: account -> stored document
  cfg,        \* account -> riskParams and initialBalance of its document
  accountStates,  \* the accounts startMonitoring pushed, in order
  st,         \* the accountState of an account: [isActive, initialBalance]
  doc,        \* accountDoc of the cycle in progress (in memory)
  loaded,     \* the document as findById returned it (unmodified paths)
  pc,         \* position of the monitoring loop / of monitorAccount
  idx,        \* index of the for-loop over accountStates
  bal,        \* currentBalance, from its fetch to the max-drawdown test (it
              \* is read again only by saveMetrics, whose record holds no
              \* balance here)
  positions,  \* positions of the cycle in progress
  pi,         \* index of the per-position loop
  log,        \* what the cycle in progress has emitted so far, in order
  outcome,    \* how the last cycle ended
  visited,    \* accounts whose loop body was entered in this pass
  sink,       \* whether Alert.create / Metric.create / TradeHistory.create
              \* resolve (TRUE) or reject (FALSE)
  initAlerts  \* the accounts with a saved 'Account initialization failed' alert

\* what the monitoring loop never writes: the reporting store's state, the
\* list startMonitoring built, the alerts of the initialization
frame == <<sink, accountStates, initAlerts>>

vars == <<now, db, cfg, accountStates, st, doc, loaded, pc, idx, bal,
          positions, pi, log, outcome, visited, sink, initAlerts>>

\* ---------------------------------------------------------------------------
\* Helper functions of bot.js
\* ---------------------------------------------------------------------------

\* a variant of getMidnightTonight with setHours(48,0,0,0): the midnight after
\* the next one
getMidnightTonight_DayAfter(t) == ((t \div DayLen) + 2) * DayLen

\* a variant of getMidnightTonight that adds a day to the clock (a rolling
\* 24 hours)
getMidnightTonight_Rolling(t) == t + DayLen

\* getMidnightTonight at clock value t: setHours(24,0,0,0), the start of the
\* next calendar day
getMidnightTonight(t) == ((t \div DayLen) + 1) * DayLen

\* a variant of isAccountBlocked that blocks for as long as an entry is stored
isAccountBlocked_Stale(accountDoc, t) == accountDoc.blockedUntil # NULL

\* a variant of isAccountBlocked with the comparison the wrong way round
isAccountBlocked_Reversed(accountDoc, t) ==
  IF accountDoc.blockedUntil = NULL THEN FALSE
  ELSE t > accountDoc.blockedUntil

\* isAccountBlocked: the value returned at clock value t
isAccountBlocked(accountDoc, t) ==
  IF accountDoc.blockedUntil = NULL THEN FALSE
  ELSE t < accountDoc.blockedUntil

\* a variant of isAccountBlockedDoc that leaves an entry that no longer blocks
\* in the document
isAccountBlockedDoc_NoPurge(accountDoc, t) == accountDoc

\* isAccountBlocked: the document after the call (an entry that no longer
\* blocks is set to null)
isAccountBlockedDoc(accountDoc, t) ==
  IF accountDoc.blockedUntil # NULL /\ ~(t < accountDoc.blockedUntil)
  THEN [accountDoc EXCEPT !.blockedUntil = NULL]
  ELSE accountDoc

\* a variant of isSymbolBlocked that still blocks at the instant of expiry
isSymbolBlocked_Inclusive(accountDoc, symbol, t) ==
  /\ accountDoc.blockedSymbols[symbol] # NULL
  /\ t <= accountDoc.blockedSymbols[symbol]

\* isSymbolBlocked: the value returned at clock value t
isSymbolBlocked(accountDoc, symbol, t) ==
  IF accountDoc.blockedSymbols[symbol] = NULL THEN FALSE
  ELSE t < accountDoc.blockedSymbols[symbol]

\* a variant of isSymbolBlockedDoc that deletes every entry that no longer
\* blocks, whatever its symbol
isSymbolBlockedDoc_PurgeAll(accountDoc, symbol, t) ==
  [accountDoc EXCEPT !.blockedSymbols =
     [s \in Symbols |->
        IF accountDoc.blockedSymbols[s] # NULL
           /\ ~(t < accountDoc.blockedSymbols[s])
        THEN NULL ELSE accountDoc.blockedSymbols[s]]]

\* isSymbolBlocked: the document after the call (an entry that no longer
\* blocks is deleted from the map)
isSymbolBlockedDoc(accountDoc, symbol, t) ==
  IF accountDoc.blockedSymbols[symbol] # NULL
     /\ ~(t < accountDoc.blockedSymbols[symbol])
  THEN [accountDoc EXCEPT !.blockedSymbols[symbol] = NULL]
  ELSE accountDoc

\* accountDoc.save(): the stored document after a successful save; only the
\* paths modified since the load are written. lastCheck is written by the save
\* that ends a cycle and by nothing else; it is never read, and the model keeps
\* that save in the log of the cycle instead of keeping the field
SaveDoc(stored, d, l) ==
  [ blockedUntil |-> IF d.blockedUntil # l.blockedUntil
                     THEN d.blockedUntil ELSE stored.blockedUntil,
    blockedSymbols |-> [s \in Symbols |->
                          IF d.blockedSymbols[s] # l.blockedSymbols[s]
                          THEN d.blockedSymbols[s]
                          ELSE stored.blockedSymbols[s]],
    isActive |-> IF d.isActive # l.isActive THEN d.isActive ELSE stored.isActive ]

\* a variant of MaxDrawdownReached that compares with < instead of <=
MaxDrawdownReached_Strict(currentBalance, initialBalance, maxDrawdownLimit) ==
  /\ initialBalance > 0
  /\ (currentBalance - initialBalance) * 100
       < -Abs(maxDrawdownLimit) * initialBalance

\* totalDrawdownPercent <= -Math.abs(maxDrawdownLimit), with
\* totalDrawdownPercent = ((currentBalance - initialBalance) / initialBalance) * 100;
\* a zero initialBalance gives NaN or +Infinity, which compares false
MaxDrawdownReached(currentBalance, initialBalance, maxDrawdownLimit) ==
  /\ initialBalance > 0
  /\ (currentBalance - initialBalance) * 100
       <= -Abs(maxDrawdownLimit) * initialBalance

\* a variant of tradePnLPercent that derives the P&L of a short with the
\* formula of a long
tradePnLPercent_LongOnly(position) ==
  IF position.percentage # 0 THEN <<position.percentage, 1>>
  ELSE IF position.entryPrice # 0 /\ position.markPrice # 0
  THEN <<(position.markPrice - position.entryPrice) * 100 * position.leverage,
         position.entryPrice>>
  ELSE <<0, 1>>

\* tradePnLPercent as a fraction <<numerator, denominator>>, denominator > 0:
\* the reported percentage when non-zero, else derived from entry and mark
\* price when both are non-zero, else 0
tradePnLPercent(position) ==
  IF position.percentage # 0 THEN <<position.percentage, 1>>
  ELSE IF position.entryPrice # 0 /\ position.markPrice # 0
  THEN IF position.side = "long"
       THEN <<(position.markPrice - position.entryPrice) * 100 * position.leverage,
              position.entryPrice>>
       ELSE <<(position.entryPrice - position.markPrice) * 100 * position.leverage,
              position.entryPrice>>
  ELSE <<0, 1>>

\* leverage > riskParams.maxLeverage
LeverageExceeded(position, riskParams) ==
  position.leverage > riskParams.maxLeverage

\* tradePnLPercent <= -Math.abs(riskParams.dailyDrawdownLimit)
DailyLimitReached(position, riskParams) ==
  tradePnLPercent(position)[1]
    <= -Abs(riskParams.dailyDrawdownLimit) * tradePnLPercent(position)[2]

\* a variant of OpenTime that reads a missing open time as the current time
\* (later than every open time a position reports)
OpenTime_MissingIsNow(position) ==
  IF position.timestamp # 0 THEN position.timestamp
  ELSE IF position.datetime # 0 THEN position.datetime
  ELSE MaxTime + 1

\* new Date(a.timestamp || a.datetime || 0).getTime()
OpenTime(position) ==
  IF position.timestamp # 0 THEN position.timestamp
  ELSE IF position.datetime # 0 THEN position.datetime
  ELSE 0

\* [...positions].sort((a, b) => timeB - timeA): the indices of ps, newest
\* first, equal times in input order (Array.prototype.sort is stable)
SortedNewestFirst(ps) ==
  LET n == Len(ps)
      Before(i, j) == \/ OpenTime(ps[i]) > OpenTime(ps[j])
                      \/ OpenTime(ps[i]) = OpenTime(ps[j]) /\ i < j
      Rank(i) == 1 + Cardinality({j \in 1..n : Before(j, i)})
  IN [r \in 1..n |-> CHOOSE i \in 1..n : Rank(i) = r]

\* a variant of tradesToClose that takes the excess from the other end of the
\* sorted list
tradesToClose_FromEnd(ps, maxOpenTrades) ==
  SubSeq(SortedNewestFirst(ps), maxOpenTrades + 1, Len(ps))

\* sortedPositions.slice(0, excessCount): the indices of the trades to close
tradesToClose(ps, maxOpenTrades) ==
  SubSeq(SortedNewestFirst(ps), 1, Len(ps) - maxOpenTrades)

\* ---------------------------------------------------------------------------
\* State after startMonitoring has loaded and initialized the accounts
\* ---------------------------------------------------------------------------

\* an account document with no block
NoDoc ==
  [ blockedUntil |-> NULL, blockedSymbols |-> [s \in Symbols |-> NULL],
    isActive |-> TRUE ]

Init ==
  /\ now = 0
  /\ db = [a \in Accounts |-> NoDoc]
  /\ cfg \in CfgChoices
  /\ st = [a \in Accounts |->
           [isActive |-> TRUE, initialBalance |-> cfg[a].initialBalance]]
  /\ doc = NoDoc
  /\ loaded = NoDoc
  /\ pc = "for"
  /\ idx = 1
  /\ bal = 0
  /\ positions = <<>>
  /\ pi = 1
  /\ log = <<>>
  /\ outcome = "none"
  /\ visited = {}
  /\ sink = TRUE
  /\ accountStates = accounts
  /\ initAlerts = {}

\* the account of the loop body in progress
Cur == accountStates[idx]

\* one emitted effect: k its kind, r its level or reason, p the index of the
\* position it is about (0: none), u the expiry it carries (NULL: none),
\* ok whether the call succeeded, at the clock value at which an entry that
\* carries an expiry was issued (NULL for the other entries)
Entry(k, r, p, u, ok) ==
  [k |-> k, r |-> r, p |-> p, u |-> u, ok |-> ok,
   at |-> IF u = NULL THEN NULL ELSE now]

\* monitorAccount returns
EndCycle ==
  /\ pc' = "done"
  /\ idx' = idx

\* ---------------------------------------------------------------------------
\* startMonitoring: the while / for loop
\* ---------------------------------------------------------------------------

\* for (const accountState of accountStates): the loop is exhausted, or the
\* accountState is skipped (isActive false), or its body is entered
ForLoop ==
  /\ pc = "for"
  /\ IF idx > Len(accountStates) THEN pc' = "sleep" /\ idx' = idx
     ELSE IF ~st[Cur].isActive THEN pc' = "for" /\ idx' = idx + 1
     ELSE pc' = "reload" /\ idx' = idx
  /\ UNCHANGED <<now, db, cfg, frame, st, doc, loaded, bal, positions, pi, log,
                 outcome, visited>>

\* the call of monitorAccount has returned: its locals are gone and the for
\* loop moves to the next accountState (one synchronous step)
Return ==
  /\ pc = "done"
  /\ pc' = "for"
  /\ idx' = idx + 1
  /\ doc' = NoDoc /\ loaded' = NoDoc /\ bal' = 0 /\ positions' = <<>>
  /\ pi' = 1 /\ log' = <<>> /\ outcome' = "none"
  /\ UNCHANGED <<now, db, cfg, frame, st, visited>>

\* a variant of ReloadOk driven by a timer: the next evaluation of the account
\* starts whether or not the one in progress has returned
ReloadOk_Overlapping ==
  /\ pc \in {"reload", "rules", "pos"}
  /\ doc' = db[Cur]
  /\ loaded' = db[Cur]
  /\ pc' = "gate"
  /\ outcome' = "running"
  /\ visited' = visited \cup {Cur}
  /\ UNCHANGED <<now, db, cfg, frame, st, idx, bal, positions, pi, log>>

\* accountState.accountDoc = await Account.findById(...): the document is found
ReloadOk ==
  /\ pc = "reload"
  /\ doc' = db[Cur]
  /\ loaded' = db[Cur]
  /\ pc' = "gate"
  /\ outcome' = "running"
  /\ visited' = visited \cup {Cur}
  /\ UNCHANGED <<now, db, cfg, frame, st, idx, bal, positions, pi, log>>

\* Account.findById rejects: the exception leaves the for loop and reaches the
\* catch of the while loop
ReloadThrows ==
  /\ pc = "reload"
  /\ pc' = "catch"
  /\ outcome' = "none"
  /\ visited' = visited \cup {Cur}
  /\ UNCHANGED <<now, db, cfg, frame, st, doc, loaded, idx, bal, positions, pi, log>>

\* Account.findById resolves to null: monitorAccount(null, ...) throws on
\* accountDoc._id before its try block; the exception reaches the catch of the
\* while loop
ReloadNull ==
  /\ pc = "reload"
  /\ pc' = "catch"
  /\ outcome' = "none"
  /\ visited' = visited \cup {Cur}
  /\ UNCHANGED <<now, db, cfg, frame, st, doc, loaded, idx, bal, positions, pi, log>>

\* await sleep(CONFIG.CHECK_INTERVAL) after the for loop, or await sleep(5000)
\* in the catch: the while loop starts the next pass
Sleep ==
  /\ pc \in {"sleep", "catch"}
  /\ pc' = "for"
  /\ idx' = 1
  /\ visited' = {}
  /\ outcome' = "none"
  /\ UNCHANGED <<now, db, cfg, frame, st, doc, loaded, bal, positions, pi, log>>

\* ---------------------------------------------------------------------------
\* monitorAccount
\* ---------------------------------------------------------------------------

\* the catch of monitorAccount: the error is logged and the call returns
Abandon ==
  /\ outcome' = "abandoned"
  /\ EndCycle

\* a variant of MonitorStart in which getOpenPositions rethrows
MonitorStart_PositionsRethrow ==
  /\ pc = "gate"
  /\ IF isAccountBlocked(doc, now)
     THEN /\ outcome' = "gated"
          /\ EndCycle
          /\ UNCHANGED <<doc, bal, positions, log>>
     ELSE /\ doc' = isAccountBlockedDoc(doc, now)
          /\ \/ /\ log' = log \o <<Entry("FetchBalance", "", 0, NULL, FALSE)>>
                /\ Abandon
                /\ UNCHANGED <<bal, positions>>
             \/ /\ log' = log \o <<Entry("FetchBalance", "", 0, NULL, TRUE),
                                   Entry("FetchPositions", "", 0, NULL, FALSE)>>
                /\ Abandon
                /\ UNCHANGED <<bal, positions>>
             \/ /\ \E b \in Balances : bal' = b
                /\ \E ps \in Snapshots(Cur) : positions' = ps
                /\ log' = log \o <<Entry("FetchBalance", "", 0, NULL, TRUE),
                                   Entry("FetchPositions", "", 0, NULL, TRUE)>>
                /\ pc' = "rules"
                /\ UNCHANGED <<idx, outcome>>
  /\ UNCHANGED <<now, db, cfg, frame, st, loaded, pi, visited>>

\* the account-block gate, then getAccountBalance and getOpenPositions
MonitorStart ==
  /\ pc = "gate"
  /\ IF isAccountBlocked(doc, now)
     THEN /\ outcome' = "gated"
          /\ EndCycle
          /\ UNCHANGED <<doc, bal, positions, log>>
     ELSE /\ doc' = isAccountBlockedDoc(doc, now)
          /\ \/ \* exchange.fetchBalance rejects: getAccountBalance rethrows
                /\ log' = log \o <<Entry("FetchBalance", "", 0, NULL, FALSE)>>
                /\ Abandon
                /\ UNCHANGED <<bal, positions>>
             \/ \* the balance is fetched; fetchPositions rejects and
                \* getOpenPositions returns []
                /\ \E b \in Balances : bal' = b
                /\ positions' = <<>>
                /\ log' = log \o <<Entry("FetchBalance", "", 0, NULL, TRUE),
                                   Entry("FetchPositions", "", 0, NULL, FALSE)>>
                /\ pc' = "rules"
                /\ UNCHANGED <<idx, outcome>>
             \/ \* both are fetched
                /\ \E b \in Balances : bal' = b
                /\ \E ps \in Snapshots(Cur) : positions' = ps
                /\ log' = log \o <<Entry("FetchBalance", "", 0, NULL, TRUE),
                                   Entry("FetchPositions", "", 0, NULL, TRUE)>>
                /\ pc' = "rules"
                /\ UNCHANGED <<idx, outcome>>
  /\ UNCHANGED <<now, db, cfg, frame, st, loaded, pi, visited>>

\* exchange.fetchBalance never settles: monitorAccount stays at its await (no
\* call of the loop carries a timeout)
FetchHangs ==
  /\ pc = "gate"
  /\ ~isAccountBlocked(doc, now)
  /\ doc' = isAccountBlockedDoc(doc, now)
  /\ pc' = "hung"
  /\ UNCHANGED <<now, db, cfg, frame, st, loaded, idx, bal, positions, pi, log,
                 outcome, visited>>

\* a variant of accountStateInitialBalance that reads the initialBalance of
\* the document as stored now
accountStateInitialBalance_Reloaded(a) == cfg[a].initialBalance

\* accountState.initialBalance: the baseline of totalPnL, set once by
\* initializeAccount
accountStateInitialBalance(a) == st[a].initialBalance

\* a variant of MaxDrawdown that blocks the account and leaves it active
MaxDrawdown_BlockOnly ==
  /\ pc = "rules"
  /\ MaxDrawdownReached(bal, accountStateInitialBalance(Cur),
                        cfg[Cur].maxDrawdownLimit)
  /\ LET blocked == [doc EXCEPT !.blockedUntil = getMidnightTonight(now)]
     IN /\ doc' = blocked
        /\ \E allClosed \in BOOLEAN :
             \/ /\ db' = [db EXCEPT ![Cur] = SaveDoc(db[Cur], blocked, loaded)]
                /\ loaded' = blocked
                /\ log' = log \o
                     <<Entry("Alert", "critical", 0, NULL, sink),
                       Entry("CloseAll", "MAX_DRAWDOWN", 0, NULL, allClosed),
                       Entry("BlockAccountUntil", "", 0, blocked.blockedUntil, TRUE),
                       Entry("Alert", "critical", 0, NULL, sink)>>
                /\ outcome' = "tripped"
                /\ EndCycle
                /\ UNCHANGED st
             \/ /\ log' = log \o
                     <<Entry("Alert", "critical", 0, NULL, sink),
                       Entry("CloseAll", "MAX_DRAWDOWN", 0, NULL, allClosed),
                       Entry("BlockAccountUntil", "", 0, blocked.blockedUntil, FALSE)>>
                /\ Abandon
                /\ UNCHANGED <<db, loaded, st>>
  /\ bal' = 0
  /\ UNCHANGED <<now, cfg, frame, positions, pi, visited>>

\* RULE 1: max drawdown reached: alert, closeAllPositions, block the account
\* until midnight and deactivate it, save, alert, return
MaxDrawdown ==
  /\ pc = "rules"
  /\ MaxDrawdownReached(bal, accountStateInitialBalance(Cur),
                        cfg[Cur].maxDrawdownLimit)
  /\ LET blocked == [doc EXCEPT !.blockedUntil = getMidnightTonight(now),
                                !.isActive = FALSE]
     IN /\ doc' = blocked
        /\ \E allClosed \in BOOLEAN :
             \/ \* accountDoc.save() resolves
                /\ db' = [db EXCEPT ![Cur] = SaveDoc(db[Cur], blocked, loaded)]
                /\ loaded' = blocked
                /\ st' = [st EXCEPT ![Cur].isActive = FALSE]
                /\ log' = log \o
                     <<Entry("Alert", "critical", 0, NULL, sink),
                       Entry("CloseAll", "MAX_DRAWDOWN", 0, NULL, allClosed),
                       Entry("BlockAccountUntil", "", 0, blocked.blockedUntil, TRUE),
                       Entry("Alert", "critical", 0, NULL, sink)>>
                /\ outcome' = "tripped"
                /\ EndCycle
             \/ \* accountDoc.save() rejects: caught by monitorAccount
                /\ log' = log \o
                     <<Entry("Alert", "critical", 0, NULL, sink),
                       Entry("CloseAll", "MAX_DRAWDOWN", 0, NULL, allClosed),
                       Entry("BlockAccountUntil", "", 0, blocked.blockedUntil, FALSE)>>
                /\ Abandon
                /\ UNCHANGED <<db, loaded, st>>
  /\ bal' = 0
  /\ UNCHANGED <<now, cfg, frame, positions, pi, visited>>

\* what the excess-trade loop emits when its first f closes succeed: a close
\* and a trade record for each, then the failed close if there is one
ExcessLog(ttc, f) ==
  [i \in 1..(2 * f) |->
     IF i % 2 = 1
     THEN Entry("CloseOne", "MAX_TRADES_EXCEEDED", ttc[(i + 1) \div 2], NULL, TRUE)
     ELSE Entry("RecordTrade", "MAX_TRADES_EXCEEDED", ttc[i \div 2], NULL, sink)]
  \o (IF f < Len(ttc)
      THEN <<Entry("CloseOne", "MAX_TRADES_EXCEEDED", ttc[f + 1], NULL, FALSE)>>
      ELSE <<>>)

\* a variant of MaxOpenTrades that takes the positions it closed out of the
\* list the per-position loop runs over
MaxOpenTrades_Refetch ==
  /\ pc = "rules"
  /\ ~MaxDrawdownReached(bal, accountStateInitialBalance(Cur),
                        cfg[Cur].maxDrawdownLimit)
  /\ IF Len(positions) > cfg[Cur].maxOpenTrades
     THEN LET ttc == tradesToClose(positions, cfg[Cur].maxOpenTrades)
          IN \E f \in 0..Len(ttc) :
               /\ log' = log \o <<Entry("Alert", "warning", 0, NULL, sink)>>
                             \o ExcessLog(ttc, f)
               /\ IF f = Len(ttc)
                  THEN /\ pc' = "pos"
                       /\ positions' =
                            SelectSeq(positions,
                                      LAMBDA q : \A k \in 1..Len(ttc) :
                                                   positions[ttc[k]] # q)
                       /\ UNCHANGED <<idx, outcome>>
                  ELSE Abandon /\ UNCHANGED positions
     ELSE /\ pc' = "pos"
          /\ UNCHANGED <<idx, outcome, log, positions>>
  /\ pi' = 1
  /\ bal' = 0
  /\ UNCHANGED <<now, db, cfg, frame, st, doc, loaded, visited>>

\* RULE 2: max open trades: with more positions than allowed, alert and close
\* the newest excess ones, recording each; then on to the per-position loop
MaxOpenTrades ==
  /\ pc = "rules"
  /\ ~MaxDrawdownReached(bal, accountStateInitialBalance(Cur),
                        cfg[Cur].maxDrawdownLimit)
  /\ IF Len(positions) > cfg[Cur].maxOpenTrades
     THEN LET ttc == tradesToClose(positions, cfg[Cur].maxOpenTrades)
          IN \E f \in 0..Len(ttc) :
               /\ log' = log \o <<Entry("Alert", "warning", 0, NULL, sink)>>
                             \o ExcessLog(ttc, f)
               /\ IF f = Len(ttc)
                  THEN pc' = "pos" /\ UNCHANGED <<idx, outcome>>
                  ELSE Abandon
     ELSE /\ pc' = "pos"
          /\ UNCHANGED <<idx, outcome, log>>
  /\ pi' = 1
  /\ bal' = 0
  /\ UNCHANGED <<now, db, cfg, frame, st, doc, loaded, positions, visited>>

\* a variant of PositionRule without the blocked-symbol check
PositionRule_NoBlockedCheck(position, riskParams, accountDoc, t) ==
  IF LeverageExceeded(position, riskParams) THEN "LEVERAGE_EXCEEDED"
  ELSE IF DailyLimitReached(position, riskParams) THEN "DAILY_LIMIT_REACHED"
  ELSE "NONE"

\* a variant of PositionRule that tries the daily limit before the leverage
PositionRule_DailyFirst(position, riskParams, accountDoc, t) ==
  IF DailyLimitReached(position, riskParams) THEN "DAILY_LIMIT_REACHED"
  ELSE IF LeverageExceeded(position, riskParams) THEN "LEVERAGE_EXCEEDED"
  ELSE IF isSymbolBlocked(accountDoc, position.symbol, t) THEN "SYMBOL_BLOCKED"
  ELSE "NONE"

\* the rule the per-position loop applies to a position: the leverage check,
\* else the daily limit, else the blocked-symbol check
PositionRule(position, riskParams, accountDoc, t) ==
  IF LeverageExceeded(position, riskParams) THEN "LEVERAGE_EXCEEDED"
  ELSE IF DailyLimitReached(position, riskParams) THEN "DAILY_LIMIT_REACHED"
  ELSE IF isSymbolBlocked(accountDoc, position.symbol, t) THEN "SYMBOL_BLOCKED"
  ELSE "NONE"

\* RULE 3: leverage above the limit: alert, close, record, continue
LeverageBranch ==
  \/ /\ log' = log \o <<Entry("Alert", "warning", pi, NULL, sink),
                        Entry("CloseOne", "LEVERAGE_EXCEEDED", pi, NULL, TRUE),
                        Entry("RecordTrade", "LEVERAGE_EXCEEDED", pi, NULL, sink)>>
     /\ pi' = pi + 1
     /\ UNCHANGED <<pc, idx, outcome>>
  \/ \* closePosition rethrows
     /\ log' = log \o <<Entry("Alert", "warning", pi, NULL, sink),
                        Entry("CloseOne", "LEVERAGE_EXCEEDED", pi, NULL, FALSE)>>
     /\ Abandon
     /\ UNCHANGED pi

\* a variant of DailyLimitBranch that blocks every symbol of the account
DailyLimitBranch_BlockAll ==
  LET symbol == positions[pi].symbol
      blocked == [doc EXCEPT !.blockedSymbols =
                   [s \in Symbols |-> getMidnightTonight(now)]]
  IN \/ /\ doc' = blocked
        /\ db' = [db EXCEPT ![Cur] = SaveDoc(db[Cur], blocked, loaded)]
        /\ loaded' = blocked
        /\ log' = log \o
             <<Entry("Alert", "critical", pi, NULL, sink),
               Entry("CloseOne", "DAILY_LIMIT_REACHED", pi, NULL, TRUE),
               Entry("BlockSymbolUntil", "", pi, blocked.blockedSymbols[symbol], TRUE),
               Entry("RecordTrade", "DAILY_LIMIT_REACHED", pi, NULL, sink),
               Entry("Alert", "warning", pi, NULL, sink)>>
        /\ pi' = pi + 1
        /\ UNCHANGED <<pc, idx, outcome>>
     \/ \* closePosition rethrows
        /\ log' = log \o
             <<Entry("Alert", "critical", pi, NULL, sink),
               Entry("CloseOne", "DAILY_LIMIT_REACHED", pi, NULL, FALSE)>>
        /\ Abandon
        /\ UNCHANGED <<doc, db, loaded, pi>>
     \/ \* accountDoc.save() rejects after the close
        /\ doc' = blocked
        /\ log' = log \o
             <<Entry("Alert", "critical", pi, NULL, sink),
               Entry("CloseOne", "DAILY_LIMIT_REACHED", pi, NULL, TRUE),
               Entry("BlockSymbolUntil", "", pi, blocked.blockedSymbols[symbol], FALSE)>>
        /\ Abandon
        /\ UNCHANGED <<db, loaded, pi>>

\* RULE 4: daily limit of this trade: alert, close, block the symbol until
\* midnight and save, record, alert, continue
DailyLimitBranch ==
  LET symbol == positions[pi].symbol
      blocked == [doc EXCEPT !.blockedSymbols[symbol] = getMidnightTonight(now)]
  IN \/ /\ doc' = blocked
        /\ db' = [db EXCEPT ![Cur] = SaveDoc(db[Cur], blocked, loaded)]
        /\ loaded' = blocked
        /\ log' = log \o
             <<Entry("Alert", "critical", pi, NULL, sink),
               Entry("CloseOne", "DAILY_LIMIT_REACHED", pi, NULL, TRUE),
               Entry("BlockSymbolUntil", "", pi, blocked.blockedSymbols[symbol], TRUE),
               Entry("RecordTrade", "DAILY_LIMIT_REACHED", pi, NULL, sink),
               Entry("Alert", "warning", pi, NULL, sink)>>
        /\ pi' = pi + 1
        /\ UNCHANGED <<pc, idx, outcome>>
     \/ \* closePosition rethrows
        /\ log' = log \o
             <<Entry("Alert", "critical", pi, NULL, sink),
               Entry("CloseOne", "DAILY_LIMIT_REACHED", pi, NULL, FALSE)>>
        /\ Abandon
        /\ UNCHANGED <<doc, db, loaded, pi>>
     \/ \* accountDoc.save() rejects after the close
        /\ doc' = blocked
        /\ log' = log \o
             <<Entry("Alert", "critical", pi, NULL, sink),
               Entry("CloseOne", "DAILY_LIMIT_REACHED", pi, NULL, TRUE),
               Entry("BlockSymbolUntil", "", pi, blocked.blockedSymbols[symbol], FALSE)>>
        /\ Abandon
        /\ UNCHANGED <<db, loaded, pi>>

\* the trade is on a blocked symbol: alert, close, record
SymbolBlockedBranch ==
  LET until == doc.blockedSymbols[positions[pi].symbol]
  IN \/ /\ log' = log \o <<Entry("Alert", "warning", pi, until, sink),
                           Entry("CloseOne", "SYMBOL_BLOCKED", pi, until, TRUE),
                           Entry("RecordTrade", "SYMBOL_BLOCKED", pi, NULL, sink)>>
        /\ pi' = pi + 1
        /\ UNCHANGED <<pc, idx, outcome>>
     \/ \* closePosition rethrows
        /\ log' = log \o <<Entry("Alert", "warning", pi, until, sink),
                           Entry("CloseOne", "SYMBOL_BLOCKED", pi, until, FALSE)>>
        /\ Abandon
        /\ UNCHANGED pi

\* one iteration of for (const position of positions)
CheckPosition ==
  /\ pc = "pos"
  /\ pi <= Len(positions)
  /\ LET rule == PositionRule(positions[pi], cfg[Cur], doc, now)
     IN \/ /\ rule = "LEVERAGE_EXCEEDED"
           /\ LeverageBranch
           /\ UNCHANGED <<doc, db, loaded>>
        \/ /\ rule = "DAILY_LIMIT_REACHED"
           /\ DailyLimitBranch
        \/ /\ rule = "SYMBOL_BLOCKED"
           /\ SymbolBlockedBranch
           /\ UNCHANGED <<doc, db, loaded>>
        \/ /\ rule = "NONE"
           \* isSymbolBlocked was called: an expired entry is deleted
           /\ doc' = isSymbolBlockedDoc(doc, positions[pi].symbol, now)
           /\ pi' = pi + 1
           /\ UNCHANGED <<db, loaded, log, pc, idx, outcome>>
  /\ UNCHANGED <<now, cfg, frame, st, bal, positions, visited>>

\* a variant of Finish in which saveMetrics rethrows the rejection of
\* Metric.create
Finish_MetricsAborts ==
  /\ pc = "pos"
  /\ pi > Len(positions)
  /\ IF sink
     THEN \/ /\ db' = [db EXCEPT ![Cur] = SaveDoc(db[Cur], doc, loaded)]
             /\ loaded' = doc
             /\ log' = log \o <<Entry("Metrics", "", 0, NULL, sink),
                                Entry("Save", "lastCheck", 0, NULL, TRUE)>>
             /\ outcome' = "completed"
             /\ EndCycle
          \/ /\ log' = log \o <<Entry("Metrics", "", 0, NULL, sink),
                                Entry("Save", "lastCheck", 0, NULL, FALSE)>>
             /\ Abandon
             /\ UNCHANGED <<db, loaded>>
     ELSE /\ log' = log \o <<Entry("Metrics", "", 0, NULL, sink)>>
          /\ Abandon
          /\ UNCHANGED <<db, loaded>>
  /\ UNCHANGED <<now, cfg, frame, st, doc, bal, positions, pi, visited>>

\* after the loop: saveMetrics, lastCheck = new Date(), accountDoc.save()
Finish ==
  /\ pc = "pos"
  /\ pi > Len(positions)
  /\ \/ /\ db' = [db EXCEPT ![Cur] = SaveDoc(db[Cur], doc, loaded)]
        /\ loaded' = doc
        /\ log' = log \o <<Entry("Metrics", "", 0, NULL, sink),
                           Entry("Save", "lastCheck", 0, NULL, TRUE)>>
        /\ outcome' = "completed"
        /\ EndCycle
     \/ \* accountDoc.save() rejects
        /\ log' = log \o <<Entry("Metrics", "", 0, NULL, sink),
                           Entry("Save", "lastCheck", 0, NULL, FALSE)>>
        /\ Abandon
        /\ UNCHANGED <<db, loaded>>
  /\ UNCHANGED <<now, cfg, frame, st, doc, bal, positions, pi, visited>>

\* ---------------------------------------------------------------------------
\* Shutdown
\* ---------------------------------------------------------------------------

\* process.exit(0): the loop stops where it is and the memory of the process
\* is gone; the store and the orders sent to the exchange remain
Halt ==
  /\ pc' = "halted"
  /\ idx' = 1
  /\ st' = [a \in Accounts |->
           [isActive |-> TRUE, initialBalance |-> cfg[a].initialBalance]]
  /\ doc' = NoDoc /\ loaded' = NoDoc /\ bal' = 0 /\ positions' = <<>>
  /\ pi' = 1 /\ outcome' = "none" /\ visited' = {}

\* what an iteration of the per-position loop has emitted when its close order
\* has been sent and is awaited
CloseInFlight(rule) ==
  LET until == doc.blockedSymbols[positions[pi].symbol]
  IN IF rule = "LEVERAGE_EXCEEDED"
     THEN <<Entry("Alert", "warning", pi, NULL, sink),
            Entry("CloseOne", rule, pi, NULL, TRUE)>>
     ELSE IF rule = "DAILY_LIMIT_REACHED"
     THEN <<Entry("Alert", "critical", pi, NULL, sink),
            Entry("CloseOne", rule, pi, NULL, TRUE)>>
     ELSE <<Entry("Alert", "warning", pi, until, sink),
            Entry("CloseOne", rule, pi, until, TRUE)>>

\* process.on('SIGINT'): the handler runs at an await of the loop, closes the
\* database connection and exits; either no order is awaited, or the close
\* order of the iteration in progress has been sent and the exchange executes it
Sigint ==
  /\ pc \notin {"done", "halted"}
  /\ \/ log' = <<>>
     \/ /\ pc = "pos"
        /\ pi <= Len(positions)
        /\ PositionRule(positions[pi], cfg[Cur], doc, now) # "NONE"
        /\ log' = log \o
             CloseInFlight(PositionRule(positions[pi], cfg[Cur], doc, now))
  /\ Halt
  /\ UNCHANGED <<now, db, cfg, frame>>

\* ---------------------------------------------------------------------------
\* Environment
\* ---------------------------------------------------------------------------

\* time passes (monitorAccount returning and the for loop moving on are one
\* synchronous step: nothing happens in between)
Tick ==
  /\ pc # "done"
  /\ now < MaxTime
  /\ now' = now + 1
  /\ UNCHANGED <<db, cfg, frame, st, doc, loaded, pc, idx, bal, positions, pi, log,
                 outcome, visited>>

\* another writer of the Account collection (the dashboard) blocks an account
\* until midnight
ExternalBlock ==
  /\ pc # "done"
  /\ \E a \in Blockable :
       /\ db[a].blockedUntil = NULL
       /\ db' = [db EXCEPT ![a].blockedUntil = getMidnightTonight(now)]
  /\ UNCHANGED <<now, cfg, frame, st, doc, loaded, pc, idx, bal, positions, pi, log,
                 outcome, visited>>

Next ==
  \/ ForLoop
  \/ Return
  \/ ReloadOk
  \/ ReloadThrows
  \/ ReloadNull
  \/ Sleep
  \/ MonitorStart
  \/ FetchHangs
  \/ MaxDrawdown
  \/ MaxOpenTrades
  \/ CheckPosition
  \/ Finish
  \/ Sigint
  \/ Tick
  \/ ExternalBlock

Spec == Init /\ [][Next]_vars

\* the reporting store goes down or comes back (Alert, Metric and TradeHistory
\* writes reject while it is down)
SinkFlips ==
  /\ pc \notin {"done", "halted"}
  /\ sink' = ~sink
  /\ UNCHANGED <<now, db, cfg, accountStates, initAlerts, st, doc, loaded, pc,
                 idx, bal, positions, pi, log, outcome, visited>>

NextReporting ==
  \/ Next
  \/ SinkFlips

\* the monitoring loop with a reporting store that may fail
ReportSpec == Init /\ [][NextReporting]_vars

\* the steps of the monitoring loop itself
Loop ==
  \/ ForLoop
  \/ Return
  \/ ReloadOk
  \/ ReloadThrows
  \/ ReloadNull
  \/ Sleep
  \/ MonitorStart
  \/ MaxDrawdown
  \/ MaxOpenTrades
  \/ CheckPosition
  \/ Finish

\* the monitoring loop keeps running (every await settles), the clock keeps
\* advancing, and a reload that is tried again and again succeeds in the end
FairSpec ==
  /\ Spec
  /\ WF_vars(Loop)
  /\ WF_vars(Tick)
  /\ SF_vars(ReloadOk)

\* ---------------------------------------------------------------------------
\* Properties
\* ---------------------------------------------------------------------------

\* the step of the cycle in progress that leaves the gate
GateStep == pc = "gate" /\ pc' \notin {"gate", "halted"}

\* the step of the cycle in progress that applies the account-level rules
RulesStep == pc = "rules" /\ pc' \notin {"rules", "halted"}

\* the start of the calendar day after clock value t, written out
IsNextMidnight(u, t) == u > t /\ u % DayLen = 0 /\ u - t <= DayLen

\* C1: gate property. When the cycle of an account starts with blockedUntil
\* set and strictly later than the clock, the cycle emits nothing (no fetch,
\* close, alert, trade record, metric or save of lastCheck) and leaves the
\* stored documents, the document in memory and the accountStates unchanged.
C1_GateSkipsCycle ==
  [][ (GateStep /\ doc.blockedUntil # NULL /\ now < doc.blockedUntil)
      => (pc' = "done" /\ log' = <<>> /\ db' = db /\ doc' = doc /\ st' = st)
    ]_vars

\* a cycle has just been skipped at the gate
C1_Witness ==
  /\ pc = "done" /\ log = <<>>
  /\ doc.blockedUntil # NULL /\ now < doc.blockedUntil

\* the kinds of entry that are about one position
PerPosition == {"CloseOne", "RecordTrade", "BlockSymbolUntil"}

\* C2: max-drawdown short-circuit. In a cycle whose balance gives
\* totalDrawdownPercent <= -|maxDrawdownLimit|, what the cycle emits after its
\* two fetches begins with Alert(critical), CloseAll, then the block of the
\* account until the next midnight with the account deactivated (stored, and
\* dropped from the loop, when the save succeeds); the cycle ends there and
\* holds no per-position entry, whatever the number of positions.
C2_MaxDrawdownShortCircuit ==
  [][ (RulesStep
       /\ cfg[Cur].initialBalance > 0
       /\ (bal - cfg[Cur].initialBalance) * 100
            <= -Abs(cfg[Cur].maxDrawdownLimit) * cfg[Cur].initialBalance)
      => /\ pc' = "done"
         /\ Len(log) = 2 /\ Len(log') >= 5 /\ SubSeq(log', 1, 2) = log
         /\ log'[3].k = "Alert" /\ log'[3].r = "critical"
         /\ log'[4].k = "CloseAll"
         /\ log'[5].k = "BlockAccountUntil"
         /\ IsNextMidnight(log'[5].u, now)
         /\ doc'.blockedUntil = log'[5].u /\ ~doc'.isActive
         /\ log'[5].ok => /\ db'[Cur].blockedUntil = log'[5].u
                          /\ ~db'[Cur].isActive
                          /\ ~st'[Cur].isActive
         /\ \A i \in 1..Len(log') : log'[i].k \notin PerPosition
    ]_vars

\* a cycle with as many positions as a snapshot holds has tripped the rule
C2_Witness ==
  /\ pc = "done" /\ Len(positions) = MaxPos
  /\ Len(log) >= 5 /\ log[4].k = "CloseAll" /\ log[5].k = "BlockAccountUntil"
  /\ ~st[Cur].isActive

\* the process has been shut down, or the loop is stuck at a call that never
\* settles
Stopped == pc \in {"halted", "hung"}

\* C3: account block expiry reactivates monitoring. Once an account that a
\* max-drawdown trip blocked and dropped from the loop has reached its expiry
\* (now >= blockedUntil), a later cycle evaluates it again: its balance is
\* fetched and the rules are applied (as long as the process runs).
C3_ExpiryReactivates ==
  \A a \in Accounts :
    (~st[a].isActive /\ db[a].blockedUntil # NULL /\ now >= db[a].blockedUntil)
      ~> ((pc = "rules" /\ Cur = a) \/ Stopped)

\* C4: failure isolation. At the end of every pass of the while loop (the
\* sleep after the for loop, or the sleep of its catch), the loop body of every
\* account that is still monitored was entered in that pass.
C4_FailureIsolation ==
  pc \in {"sleep", "catch"} => \A a \in Accounts : st[a].isActive => a \in visited

\* ---- the log of the cycle in progress, read by the properties below ----

\* the cycle fetched its balance, did not trip the max-drawdown rule and is at
\* or past the excess-trade step
PastExcess ==
  /\ pc \in {"pos", "done"}
  /\ Len(log) >= 2 /\ log[1].k = "FetchBalance" /\ log[1].ok
  /\ \A i \in 1..Len(log) : log[i].k # "CloseAll"

\* the closes of the excess-trade step, in the order they were issued
ExcessCloses ==
  SelectSeq(log, LAMBDA e : e.k = "CloseOne" /\ e.r = "MAX_TRADES_EXCEEDED")

\* the positions an excess close has closed
ClosedAsExcess ==
  {ExcessCloses[i].p : i \in {j \in 1..Len(ExcessCloses) : ExcessCloses[j].ok}}

\* the positions of the snapshot opened after position i
Newer(i) ==
  {j \in 1..Len(positions) : OpenTime(positions[j]) > OpenTime(positions[i])}

\* the k most recently opened positions of the snapshot
Newest(k) == {i \in 1..Len(positions) : Cardinality(Newer(i)) < k}

DistinctOpenTimes ==
  \A i, j \in 1..Len(positions) :
    OpenTime(positions[i]) = OpenTime(positions[j]) => i = j

\* the number of positions above the limit
Excess == Len(positions) - cfg[Cur].maxOpenTrades

\* C5 as stated: in a cycle with n > maxOpenTrades positions of distinct open
\* times and no max-drawdown trip, the positions closed for
\* MAX_TRADES_EXCEEDED are exactly the n - maxOpenTrades newest.
C5_ExactlyNewestClosed ==
  (pc = "done" /\ PastExcess /\ Excess > 0 /\ DistinctOpenTimes)
    => ClosedAsExcess = Newest(Excess)

\* C5, amended: in such a cycle the closes for MAX_TRADES_EXCEEDED are issued
\* newest first, one per position and at most n - maxOpenTrades of them, so the
\* maxOpenTrades oldest positions get none; a failed close is the last one (the
\* cycle is abandoned there); and when none fails the positions closed are
\* exactly the n - maxOpenTrades newest.
C5_NewestClosedUnlessAbandoned ==
  (PastExcess /\ Excess > 0 /\ DistinctOpenTimes)
    => /\ Len(ExcessCloses) <= Excess
       /\ \A i \in 1..Len(ExcessCloses) :
            /\ Cardinality(Newer(ExcessCloses[i].p)) = i - 1
            /\ ~ExcessCloses[i].ok => (i = Len(ExcessCloses) /\ pc = "done")
       /\ (\A i \in 1..Len(ExcessCloses) : ExcessCloses[i].ok)
            => ClosedAsExcess = Newest(Excess)

\* with one position allowed and a full snapshot of distinct open times, the
\* excess-trade step has run through
C5_Witness ==
  /\ pc = "pos" /\ PastExcess /\ DistinctOpenTimes
  /\ cfg[Cur].maxOpenTrades = 1 /\ Len(positions) = MaxPos
  /\ ClosedAsExcess = Newest(Excess)

\* the cycle is at or past the per-position loop
InChecks ==
  /\ PastExcess
  /\ \A i \in 1..Len(ExcessCloses) : ExcessCloses[i].ok

\* the per-position loop has reached position i: it has gone past it, or the
\* cycle was abandoned in its iteration
Reached(i) ==
  /\ InChecks
  /\ i \in 1..Len(positions)
  /\ i < pi \/ (pc = "done" /\ i = pi)

\* what the per-position loop has emitted for position i
EntriesFor(i) ==
  SelectSeq(log, LAMBDA e : e.p = i /\ e.r # "MAX_TRADES_EXCEEDED")

\* the closes of reason r among them
Closes(i, r) ==
  SelectSeq(EntriesFor(i), LAMBDA e : e.k = "CloseOne" /\ e.r = r)

\* the symbol blocks among them
Blocks(i) == SelectSeq(EntriesFor(i), LAMBDA e : e.k = "BlockSymbolUntil")

\* the loss of position i is at or beyond the daily limit
DailyLoss(i) ==
  tradePnLPercent(positions[i])[1]
    <= -Abs(cfg[Cur].dailyDrawdownLimit) * tradePnLPercent(positions[i])[2]

\* C6 as stated: in a cycle that reaches the per-position checks, every
\* position with leverage > maxLeverage gets a close for LEVERAGE_EXCEEDED and
\* no close for DAILY_LIMIT_REACHED or SYMBOL_BLOCKED and no symbol block.
C6_EveryLeveragedClosed ==
  (pc = "done" /\ InChecks)
    => \A i \in 1..Len(positions) :
         positions[i].leverage > cfg[Cur].maxLeverage
           => /\ Len(Closes(i, "LEVERAGE_EXCEEDED")) = 1
              /\ Closes(i, "DAILY_LIMIT_REACHED") = <<>>
              /\ Closes(i, "SYMBOL_BLOCKED") = <<>>
              /\ Blocks(i) = <<>>

\* C6, amended: every position with leverage > maxLeverage that the
\* per-position loop reaches gets Alert(warning) and one close for
\* LEVERAGE_EXCEEDED, and no close for DAILY_LIMIT_REACHED or SYMBOL_BLOCKED and
\* no symbol block, whatever its P&L and the block state of its symbol; a
\* position the loop does not reach (the cycle was abandoned at an earlier
\* failed close or save) gets nothing.
C6_LeveragePrecedence ==
  \A i \in 1..Len(positions) :
    (InChecks /\ positions[i].leverage > cfg[Cur].maxLeverage)
      => IF Reached(i)
         THEN /\ Len(EntriesFor(i)) >= 2
              /\ EntriesFor(i)[1].k = "Alert" /\ EntriesFor(i)[1].r = "warning"
              /\ EntriesFor(i)[2].k = "CloseOne"
              /\ Len(Closes(i, "LEVERAGE_EXCEEDED")) = 1
              /\ Closes(i, "DAILY_LIMIT_REACHED") = <<>>
              /\ Closes(i, "SYMBOL_BLOCKED") = <<>>
              /\ Blocks(i) = <<>>
         ELSE EntriesFor(i) = <<>>

\* an over-leveraged position whose loss is beyond the daily limit and whose
\* symbol is blocked has been closed for its leverage
C6_Witness ==
  /\ pc = "pos" /\ InChecks
  /\ \E i \in 1..Len(positions) :
       /\ Reached(i)
       /\ positions[i].leverage > cfg[Cur].maxLeverage
       /\ DailyLoss(i)
       /\ doc.blockedSymbols[positions[i].symbol] # NULL
       /\ now < doc.blockedSymbols[positions[i].symbol]
       /\ Len(Closes(i, "LEVERAGE_EXCEEDED")) = 1

\* C7 as stated: every position with leverage <= maxLeverage whose trade P&L
\* percent is <= -|dailyDrawdownLimit| gets a close for DAILY_LIMIT_REACHED and
\* a block of its symbol expiring at the next midnight, and no SYMBOL_BLOCKED
\* close.
C7_EveryLosingTradeBlocked ==
  (pc = "done" /\ InChecks)
    => \A i \in 1..Len(positions) :
         (positions[i].leverage <= cfg[Cur].maxLeverage /\ DailyLoss(i))
           => /\ Len(Closes(i, "DAILY_LIMIT_REACHED")) = 1
              /\ \E j \in 1..Len(Blocks(i)) :
                   IsNextMidnight(Blocks(i)[j].u, Blocks(i)[j].at)
              /\ Closes(i, "SYMBOL_BLOCKED") = <<>>

\* C7, amended: every such position that the per-position loop reaches gets
\* Alert(critical) and one close for DAILY_LIMIT_REACHED and nothing from the
\* blocked-symbol check; when the close order succeeds, one block of its symbol
\* follows whose expiry is the next midnight boundary, held by the account
\* document and, once the step is through, by the stored account; when the
\* close order fails no block is recorded.
C7_DailyLimitBlocksSymbol ==
  \A i \in 1..Len(positions) :
    (Reached(i) /\ positions[i].leverage <= cfg[Cur].maxLeverage /\ DailyLoss(i))
      => /\ Len(EntriesFor(i)) >= 2
         /\ EntriesFor(i)[1].k = "Alert" /\ EntriesFor(i)[1].r = "critical"
         /\ EntriesFor(i)[2].k = "CloseOne"
         /\ Len(Closes(i, "DAILY_LIMIT_REACHED")) = 1
         /\ Closes(i, "SYMBOL_BLOCKED") = <<>>
         /\ Closes(i, "LEVERAGE_EXCEEDED") = <<>>
         /\ IF Closes(i, "DAILY_LIMIT_REACHED")[1].ok
            THEN /\ Len(Blocks(i)) = 1
                 /\ IsNextMidnight(Blocks(i)[1].u, Blocks(i)[1].at)
                 /\ (pc = "pos" /\ i = pi - 1)
                      => /\ Blocks(i)[1].ok
                         /\ doc.blockedSymbols[positions[i].symbol] = Blocks(i)[1].u
                         /\ db[Cur].blockedSymbols[positions[i].symbol]
                              = Blocks(i)[1].u
            ELSE Blocks(i) = <<>>

\* the long position entered at 100 and marked at 94, with no percentage
\* reported, has been closed and its symbol is blocked in the stored account
C7_Witness ==
  /\ pc = "pos" /\ InChecks
  /\ \E i \in 1..Len(positions) :
       /\ Reached(i)
       /\ positions[i].side = "long" /\ positions[i].percentage = 0
       /\ positions[i].entryPrice = 100 /\ positions[i].markPrice = 94
       /\ Len(Blocks(i)) = 1 /\ Blocks(i)[1].ok
       /\ db[Cur].blockedSymbols[positions[i].symbol] = Blocks(i)[1].u

\* one iteration of the per-position loop
PosStep ==
  /\ pc = "pos" /\ pi <= Len(positions)
  /\ <<pc, pi>>' # <<pc, pi>> /\ pc' # "halted"

\* the position of this iteration passes the leverage and daily-limit checks
PassesChecks ==
  /\ positions[pi].leverage <= cfg[Cur].maxLeverage
  /\ ~DailyLoss(pi)

\* the account document holds a block of the symbol of this iteration's
\* position that expires strictly in the future
ActiveSymbolBlock ==
  /\ doc.blockedSymbols[positions[pi].symbol] # NULL
  /\ now < doc.blockedSymbols[positions[pi].symbol]

Shape(e) == <<e.k, e.r, e.p>>

\* C8 as stated: a position that passes the leverage and daily-limit checks
\* and whose symbol has a block expiring strictly in the future gets
\* Alert(warning), CloseOne(SYMBOL_BLOCKED), RecordTrade; with no block or an
\* expired block it gets nothing.
C8_BlockedSymbolRecorded ==
  [][ (PosStep /\ PassesChecks)
        => IF ActiveSymbolBlock
           THEN /\ Len(log') = Len(log) + 3
                /\ SubSeq(log', 1, Len(log)) = log
                /\ Shape(log'[Len(log) + 1]) = <<"Alert", "warning", pi>>
                /\ Shape(log'[Len(log) + 2]) = <<"CloseOne", "SYMBOL_BLOCKED", pi>>
                /\ Shape(log'[Len(log) + 3]) = <<"RecordTrade", "SYMBOL_BLOCKED", pi>>
           ELSE log' = log ]_vars

\* C8, amended: such a position gets Alert(warning), then
\* CloseOne(SYMBOL_BLOCKED), and then, when the close order succeeds,
\* RecordTrade, after which the loop goes on; when the close order fails the
\* cycle ends there with no RecordTrade. With no block or an expired block the
\* position gets nothing.
C8_BlockedSymbolClosed ==
  [][ (PosStep /\ PassesChecks)
        => IF ActiveSymbolBlock
           THEN /\ Len(log') >= Len(log) + 2
                /\ SubSeq(log', 1, Len(log)) = log
                /\ Shape(log'[Len(log) + 1]) = <<"Alert", "warning", pi>>
                /\ Shape(log'[Len(log) + 2]) = <<"CloseOne", "SYMBOL_BLOCKED", pi>>
                /\ IF log'[Len(log) + 2].ok
                   THEN /\ Len(log') = Len(log) + 3
                        /\ Shape(log'[Len(log) + 3])
                             = <<"RecordTrade", "SYMBOL_BLOCKED", pi>>
                        /\ pc' = "pos" /\ pi' = pi + 1
                   ELSE /\ Len(log') = Len(log) + 2
                        /\ pc' = "done"
           ELSE log' = log /\ pc' = "pos" /\ pi' = pi + 1 ]_vars

\* a position within its leverage and daily limits has been closed and
\* recorded for the block of its symbol
C8_Witness ==
  /\ pc = "pos" /\ InChecks
  /\ \E i \in 1..Len(positions) :
       /\ Reached(i)
       /\ positions[i].leverage <= cfg[Cur].maxLeverage /\ ~DailyLoss(i)
       /\ Len(Closes(i, "SYMBOL_BLOCKED")) = 1
       /\ Closes(i, "SYMBOL_BLOCKED")[1].ok
       /\ Len(EntriesFor(i)) = 3 /\ EntriesFor(i)[3].k = "RecordTrade"

\* C9: a block blocks only while now < until, for the account and for every
\* symbol: the gate skips the cycle exactly when the account block expires
\* strictly after now, and a position past the leverage and daily-limit checks
\* is closed for SYMBOL_BLOCKED exactly when the block of its symbol expires
\* strictly after now; a block expiring exactly now is expired and is cleared.
C9_StrictFuture ==
  [][ /\ GateStep
        => /\ (pc' = "done" /\ log' = <<>>)
                <=> (doc.blockedUntil # NULL /\ now < doc.blockedUntil)
           /\ doc.blockedUntil = now => doc'.blockedUntil = NULL
      /\ (PosStep /\ PassesChecks)
        => /\ (\E j \in 1..Len(log') :
                 /\ j > Len(log)
                 /\ Shape(log'[j]) = <<"CloseOne", "SYMBOL_BLOCKED", pi>>)
                <=> ActiveSymbolBlock
           /\ doc.blockedSymbols[positions[pi].symbol] = now
                => doc'.blockedSymbols[positions[pi].symbol] = NULL ]_vars

\* a cycle has run with an account block and a symbol block that both expire
\* exactly now: the gate let it through and the position on that symbol was
\* left alone
C9_Witness ==
  /\ pc = "pos" /\ pi > 1 /\ InChecks
  /\ loaded.blockedUntil = now /\ doc.blockedUntil = NULL
  /\ loaded.blockedSymbols[positions[pi - 1].symbol] = now
  /\ doc.blockedSymbols[positions[pi - 1].symbol] = NULL
  /\ positions[pi - 1].leverage <= cfg[Cur].maxLeverage /\ ~DailyLoss(pi - 1)
  /\ EntriesFor(pi - 1) = <<>>

\* C10: an expired block never has an effect: a cycle skipped at the gate was
\* loaded with an account block expiring strictly after now, and every close
\* for SYMBOL_BLOCKED was issued under a block expiring strictly after the
\* time of the close, however long expired entries have stayed stored.
C10_NoStaleBlocking ==
  /\ [](/\ (pc = "done" /\ log = <<>>)
             => (loaded.blockedUntil # NULL /\ loaded.blockedUntil > now)
        /\ \A j \in 1..Len(log) :
             (log[j].k = "CloseOne" /\ log[j].r = "SYMBOL_BLOCKED")
               => (log[j].u # NULL /\ log[j].u > log[j].at))
  /\ [][ /\ (GateStep /\ doc.blockedUntil # NULL /\ doc.blockedUntil <= now)
           => ~(pc' = "done" /\ log' = <<>>)
         /\ (PosStep /\ doc.blockedSymbols[positions[pi].symbol] # NULL
                     /\ doc.blockedSymbols[positions[pi].symbol] <= now)
           => \A j \in 1..Len(log') :
                j > Len(log) => ~(log'[j].k = "CloseOne"
                                    /\ log'[j].r = "SYMBOL_BLOCKED") ]_vars

\* a cycle has run on an account loaded with an account block and a symbol
\* block that both expired before now: it was not skipped and the position on
\* that symbol was left alone
C10_Witness ==
  /\ pc = "pos" /\ pi > 1 /\ InChecks
  /\ loaded.blockedUntil # NULL /\ loaded.blockedUntil < now
  /\ loaded.blockedSymbols[positions[1].symbol] # NULL
  /\ loaded.blockedSymbols[positions[1].symbol] < now
  /\ positions[1].leverage <= cfg[Cur].maxLeverage /\ ~DailyLoss(1)
  /\ EntriesFor(1) = <<>>

\* the snapshot ps holds no position on symbol s
Absent(s, ps) == \A i \in 1..Len(ps) : ps[i].symbol # s

\* C11: idempotence on absent positions. In every step of a cycle, a symbol
\* that has a block entry (active or expired) and no position in the snapshot
\* of the cycle is referenced by nothing the step emits, and its entry stays as
\* it was in the account document and in the stored account.
C11_AbsentSymbolUntouched ==
  [][ \A s \in Symbols :
        (/\ pc \in {"gate", "rules", "pos"} /\ pc' # "halted"
         /\ doc.blockedSymbols[s] # NULL
         /\ Absent(s, positions'))
          => /\ doc'.blockedSymbols[s] = doc.blockedSymbols[s]
             /\ db'[Cur].blockedSymbols[s] = db[Cur].blockedSymbols[s]
             /\ \A j \in 1..Len(log') :
                  (j > Len(log) /\ log'[j].p # 0)
                    => positions'[log'[j].p].symbol # s ]_vars

\* a cycle that closed a position has completed, and the expired block of a
\* symbol without a position is still stored
C11_Witness ==
  /\ pc = "done" /\ outcome = "completed"
  /\ \E i \in 1..Len(log) : log[i].k = "CloseOne" /\ log[i].ok
  /\ \E s \in Symbols :
       /\ Absent(s, positions)
       /\ db[Cur].blockedSymbols[s] # NULL
       /\ db[Cur].blockedSymbols[s] <= now
       /\ doc.blockedSymbols[s] = db[Cur].blockedSymbols[s]

\* a call of monitorAccount starts
StartStep == pc' = "gate" /\ pc # "gate"

\* C12: per-account serialization. A call of monitorAccount starts only when
\* no call is in flight: the previous call has returned and nothing of it is
\* left, and the document the new call works on is the stored one; and when a
\* call returns, every block it saved is in the store (unless it has expired
\* since), so the next call of the account loads it.
C12_OneEvaluationInFlight ==
  /\ [][ StartStep
           => /\ pc = "reload" /\ log = <<>> /\ outcome = "none"
              /\ positions = <<>> /\ pi = 1
              /\ doc' = db[Cur] /\ loaded' = db[Cur] ]_vars
  /\ [](pc = "done"
          => \A j \in 1..Len(log) :
               /\ (log[j].k = "BlockSymbolUntil" /\ log[j].ok)
                    => \/ db[Cur].blockedSymbols[positions[log[j].p].symbol]
                            = log[j].u
                       \/ now >= log[j].u
               /\ (log[j].k = "BlockAccountUntil" /\ log[j].ok)
                    => db[Cur].blockedUntil = log[j].u)

\* a call has started on a document that holds a symbol block saved by an
\* earlier call for the same account
C12_Witness ==
  /\ pc = "gate" /\ log = <<>> /\ Cur = "A"
  /\ \E s \in Symbols : doc.blockedSymbols[s] # NULL /\ now < doc.blockedSymbols[s]

\* C13: no cross-account stalling. While a call made during the cycle of one
\* account never settles, the cycles of every other monitored account still
\* run, and the stuck cycle is abandoned after a bounded time (as long as the
\* process is not shut down).
C13_NoCrossAccountStalling ==
  /\ \A a, b \in Accounts :
       (a # b /\ pc = "hung" /\ Cur = a /\ st[b].isActive)
         ~> ((pc = "gate" /\ Cur = b) \/ pc = "halted")
  /\ (pc = "hung") ~> (pc # "hung")

\* the calls of the per-position steps that change something outside the
\* process: an order on the exchange, a block in the store
Effects == {"CloseOne", "BlockSymbolUntil"}

\* C14: abort without partial commit. A cycle abandoned at a failed I/O step
\* (balance fetch, close order, account save) has applied nothing: no close
\* order issued earlier in it has taken effect and no block was saved by it.
C14_AbortWithoutPartialCommit ==
  (pc = "done" /\ outcome = "abandoned")
    => \A j \in 1..Len(log) : log[j].k \in Effects => ~log[j].ok

\* the close-all of the cycle in progress failed and the account block was saved
CloseAllFailed ==
  /\ \E j \in 1..Len(log) : log[j].k = "CloseAll" /\ ~log[j].ok
  /\ \E j \in 1..Len(log) : log[j].k = "BlockAccountUntil" /\ log[j].ok

\* C15: a failed close is retried on the next tick. For the close-all of a
\* max-drawdown trip: after a cycle whose close-all failed, the account has a
\* next tick (monitorAccount is called for it again), in which the positions
\* still open can be closed again (as long as the process runs).
C15_FailedCloseRetried ==
  \A a \in Accounts :
    (pc = "done" /\ Cur = a /\ CloseAllFailed)
      ~> ((pc = "gate" /\ Cur = a) \/ Stopped)

\* the calls of the reporting sink
Reporting == {"Alert", "RecordTrade", "Metrics"}

\* the entries of l that are not calls of the reporting sink
Decisions(l) == SelectSeq(l, LAMBDA e : e.k \notin Reporting)

\* C16: reporting never affects the risk decision. Whether the reporting calls
\* of a cycle succeed or fail, a cycle is abandoned only at a failed balance
\* fetch, close order or account save, never at a reporting call; a close that
\* succeeded is followed by what its rule prescribes (the symbol block after a
\* daily-limit close, the account block after the close-all); and a block that
\* a step saved is in the store after the step, whatever the reporting calls
\* around it did.
C16_ReportingNeverDecides ==
  /\ [](/\ (pc = "done" /\ outcome = "abandoned")
             => /\ log # <<>>
                /\ log[Len(log)].k \notin Reporting
                /\ ~log[Len(log)].ok
        /\ (pc = "done" /\ outcome \in {"completed", "tripped"})
             => \A j \in 1..Len(Decisions(log)) : 
                  Decisions(log)[j].k \in {"CloseOne", "BlockSymbolUntil",
                                           "BlockAccountUntil", "Save"}
                    => Decisions(log)[j].ok
        /\ \A j \in 1..Len(Decisions(log)) :
             (/\ Decisions(log)[j].k = "CloseOne"
              /\ Decisions(log)[j].r = "DAILY_LIMIT_REACHED"
              /\ Decisions(log)[j].ok
              /\ pc \in {"pos", "done"})
               => /\ j < Len(Decisions(log))
                  /\ Decisions(log)[j + 1].k = "BlockSymbolUntil"
                  /\ Decisions(log)[j + 1].p = Decisions(log)[j].p)
  /\ [][ \A j \in 1..Len(log') :
           (j > Len(log) /\ pc' # "halted")
             => /\ (log'[j].k = "BlockSymbolUntil" /\ log'[j].ok)
                     => db'[Cur].blockedSymbols[positions[log'[j].p].symbol]
                          = log'[j].u
                /\ (log'[j].k = "BlockAccountUntil" /\ log'[j].ok)
                     => /\ db'[Cur].blockedUntil = log'[j].u
                        /\ ~db'[Cur].isActive
                        /\ ~st'[Cur].isActive ]_vars

\* a cycle has completed with the reporting store down: its alert and its
\* trade record failed, and the position was closed and its symbol block saved
C16_Witness ==
  /\ pc = "done" /\ outcome = "completed" /\ ~sink
  /\ \E j \in 1..Len(log) : log[j].k = "Alert" /\ ~log[j].ok
  /\ \E j \in 1..Len(log) : log[j].k = "RecordTrade" /\ ~log[j].ok
  /\ \E j \in 1..Len(log) : log[j].k = "Metrics" /\ ~log[j].ok
  /\ \E j \in 1..Len(log) :
       /\ log[j].k = "BlockSymbolUntil" /\ log[j].ok
       /\ db[Cur].blockedSymbols[positions[log[j].p].symbol] = log[j].u

\* C17: shutdown drain. When the process has halted, every close order that
\* was executed on the exchange in the cycle that was in progress has its
\* trade record, and a daily-limit close has its symbol block.
C17_ShutdownDrain ==
  pc = "halted"
    => \A j \in 1..Len(log) :
         (log[j].k = "CloseOne" /\ log[j].ok)
           => /\ \E m \in 1..Len(log) :
                   /\ m > j /\ log[m].k = "RecordTrade"
                   /\ log[m].p = log[j].p /\ log[m].r = log[j].r
              /\ log[j].r = "DAILY_LIMIT_REACHED"
                   => \E m \in 1..Len(log) :
                        /\ m > j /\ log[m].k = "BlockSymbolUntil"
                        /\ log[m].p = log[j].p

\* C18 as stated: the step in which a position on symbol S trips the daily
\* limit emits nothing about another position and leaves the stored block
\* entries of every other symbol unchanged.
C18_OtherBlocksUnchanged ==
  [][ (PosStep /\ positions[pi].leverage <= cfg[Cur].maxLeverage
               /\ DailyLoss(pi))
        => /\ \A s \in Symbols \ {positions[pi].symbol} :
                db'[Cur].blockedSymbols[s] = db[Cur].blockedSymbols[s]
           /\ \A j \in 1..Len(log') : j > Len(log) => log'[j].p = pi ]_vars

\* C18, amended: per-symbol containment of the daily limit. The step in which a
\* position on symbol S trips the daily limit emits nothing about another
\* position and leaves the block entries of every other symbol as they were, in
\* the account document and in the store (its save may only remove from the
\* store an entry that had expired and that the cycle had already dropped from
\* the document); and the step of a position that
\* violates no rule itself (leverage within the limit, loss within the daily
\* limit, no active block on its symbol) emits nothing and stores nothing,
\* whether or not another symbol tripped in the cycle.
C18_DailyLimitContained ==
  [][ /\ (PosStep /\ positions[pi].leverage <= cfg[Cur].maxLeverage
                  /\ DailyLoss(pi))
           => /\ \A s \in Symbols \ {positions[pi].symbol} :
                   /\ doc'.blockedSymbols[s] = doc.blockedSymbols[s]
                   /\ \/ db'[Cur].blockedSymbols[s] = db[Cur].blockedSymbols[s]
                      \/ /\ db[Cur].blockedSymbols[s] # NULL
                         /\ db[Cur].blockedSymbols[s] <= now
                         /\ doc.blockedSymbols[s] = NULL
                         /\ db'[Cur].blockedSymbols[s] = NULL
              /\ \A j \in 1..Len(log') : j > Len(log) => log'[j].p = pi
              /\ SubSeq(log', 1, Len(log)) = log
      /\ (PosStep /\ PassesChecks /\ ~ActiveSymbolBlock)
           => /\ log' = log /\ db' = db
              /\ pc' = "pos" /\ pi' = pi + 1 ]_vars

\* a cycle has completed in which a position on one symbol tripped the daily
\* limit and a position on another symbol, older and within every limit, got
\* nothing: its symbol is not blocked
C18_Witness ==
  /\ pc = "done" /\ outcome = "completed" /\ InChecks
  /\ \E i, j \in 1..Len(positions) :
       /\ positions[i].symbol # positions[j].symbol
       /\ Len(Blocks(i)) = 1 /\ Blocks(i)[1].ok
       /\ db[Cur].blockedSymbols[positions[i].symbol] = Blocks(i)[1].u
       /\ positions[j].leverage <= cfg[Cur].maxLeverage /\ ~DailyLoss(j)
       /\ \A m \in 1..Len(log) : log[m].p # j
       /\ db[Cur].blockedSymbols[positions[j].symbol] = NULL

\* C19: no new trades while the account is blocked. After a max-drawdown
\* trip, a position that appears on the account while its block is active is
\* closed before the block expires; so whenever the block of a tripped account
\* is active, a cycle goes on to look at the positions of that account while
\* the block is still active (as long as the process runs).
C19_BlockedAccountPoliced ==
  \A a \in Accounts :
    (~db[a].isActive /\ db[a].blockedUntil # NULL /\ now < db[a].blockedUntil)
      ~> \/ /\ pc \in {"rules", "pos"} /\ Cur = a
            /\ db[a].blockedUntil # NULL /\ now < db[a].blockedUntil
         \/ Stopped

\* ---------------------------------------------------------------------------
\* Accounts configured with limits of 0
\* ---------------------------------------------------------------------------

\* riskParams with the two drawdown limits and the trade count at 0
ZeroLimits ==
  [dailyDrawdownLimit |-> 0, maxDrawdownLimit |-> 0, maxLeverage |-> 20,
   maxOpenTrades |-> 0, initialBalance |-> 100]

\* riskParams with the leverage limit at 0
ZeroLeverage ==
  [dailyDrawdownLimit |-> 5, maxDrawdownLimit |-> 20, maxLeverage |-> 0,
   maxOpenTrades |-> 1, initialBalance |-> 100]

ZeroChoices ==
  { [a \in Accounts |-> IF a = "A" THEN ZeroLimits ELSE ZeroLeverage] }

\* the state after startMonitoring has loaded accounts with such riskParams
ZeroInit ==
  /\ now = 0
  /\ db = [a \in Accounts |-> NoDoc]
  /\ cfg \in ZeroChoices
  /\ st = [a \in Accounts |->
           [isActive |-> TRUE, initialBalance |-> cfg[a].initialBalance]]
  /\ doc = NoDoc
  /\ loaded = NoDoc
  /\ pc = "for"
  /\ idx = 1
  /\ bal = 0
  /\ positions = <<>>
  /\ pi = 1
  /\ log = <<>>
  /\ outcome = "none"
  /\ visited = {}
  /\ sink = TRUE
  /\ accountStates = accounts
  /\ initAlerts = {}

\* the monitoring loop over these accounts
ZeroSpec == ZeroInit /\ [][Next]_vars

\* the log holds a close of position i for reason r, attempted or done
CloseIssued(l, i, r) ==
  \E j \in 1..Len(l) : l[j].k = "CloseOne" /\ l[j].p = i /\ l[j].r = r

\* C20: a limit of 0 always trips. With maxDrawdownLimit = 0 the rules step
\* trips the max-drawdown rule (closeAllPositions is called) for every current
\* balance; with maxOpenTrades = 0 an excess-trade step that runs through has
\* closed every open position as excess; with maxLeverage = 0 the iteration of
\* every position issues a close for LEVERAGE_EXCEEDED; with
\* dailyDrawdownLimit = 0 the iteration of every position that passes the
\* leverage check issues a close for DAILY_LIMIT_REACHED, whatever its P&L.
C20_ZeroLimitAlwaysTrips ==
  [][ /\ (RulesStep /\ cfg[Cur].maxDrawdownLimit = 0)
        => \E j \in 1..Len(log') : log'[j].k = "CloseAll"
      /\ (RulesStep /\ cfg[Cur].maxOpenTrades = 0 /\ pc' = "pos")
        => \A i \in 1..Len(positions) :
             \E j \in 1..Len(log') :
               /\ log'[j].k = "CloseOne" /\ log'[j].p = i /\ log'[j].ok
               /\ log'[j].r = "MAX_TRADES_EXCEEDED"
      /\ (PosStep /\ cfg[Cur].maxLeverage = 0)
        => CloseIssued(log', pi, "LEVERAGE_EXCEEDED")
      /\ (PosStep /\ cfg[Cur].dailyDrawdownLimit = 0
            /\ ~LeverageExceeded(positions[pi], cfg[Cur]))
        => CloseIssued(log', pi, "DAILY_LIMIT_REACHED")
    ]_vars

\* ---------------------------------------------------------------------------
\* startMonitoring from its start: initializeAccount for each loaded account,
\* then the monitoring loop
\* ---------------------------------------------------------------------------

\* the stored documents at start-up: the initialBalance of account A is set
\* already, or not yet
FirstRun ==
  [a \in Accounts |->
     IF a = "A" THEN [Typical EXCEPT !.initialBalance = 0] ELSE Negated]

StartChoices == CfgChoices \cup {FirstRun}

\* an account startMonitoring has pushed no accountState for
NoState == [isActive |-> FALSE, initialBalance |-> 0]

\* the initialBalance another writer of the Account collection stores
RebasedBalance == 80

StartInit ==
  /\ now = 0
  /\ db = [a \in Accounts |-> NoDoc]
  /\ cfg \in StartChoices
  /\ accountStates = <<>>
  /\ st = [a \in Accounts |-> NoState]
  /\ doc = NoDoc
  /\ loaded = NoDoc
  /\ pc = "init"
  /\ idx = 1
  /\ bal = 0
  /\ positions = <<>>
  /\ pi = 1
  /\ log = <<>>
  /\ outcome = "none"
  /\ visited = {}
  /\ sink = TRUE
  /\ initAlerts = {}

\* the catch of initializeAccount: saveAlert(critical, 'Account initialization
\* failed'), return null (startMonitoring pushes nothing)
InitFailed(a) ==
  /\ initAlerts' = (IF sink THEN initAlerts \cup {a} ELSE initAlerts)
  /\ UNCHANGED <<cfg, accountStates, st>>

\* initializeAccount returns an accountState and startMonitoring pushes it
InitPushed(a, initialBalance) ==
  /\ accountStates' = Append(accountStates, a)
  /\ st' = [st EXCEPT ![a] = [isActive |-> TRUE,
                              initialBalance |-> initialBalance]]
  /\ UNCHANGED initAlerts

\* a variant of InitializeAccount that pushes an accountState for an account
\* whose initialization failed
InitializeAccount_PushAnyway ==
  /\ pc = "init"
  /\ idx <= Len(accounts)
  /\ LET a == accounts[idx]
     IN \/ /\ initAlerts' = (IF sink THEN initAlerts \cup {a} ELSE initAlerts)
           /\ accountStates' = Append(accountStates, a)
           /\ st' = [st EXCEPT ![a] = [isActive |-> TRUE,
                                       initialBalance |-> cfg[a].initialBalance]]
           /\ UNCHANGED cfg
        \/ \E b \in Balances :
             IF cfg[a].initialBalance = 0
             THEN /\ cfg' = [cfg EXCEPT ![a].initialBalance = b]
                  /\ InitPushed(a, b)
             ELSE /\ InitPushed(a, cfg[a].initialBalance)
                  /\ UNCHANGED cfg
  /\ idx' = idx + 1
  /\ UNCHANGED <<now, db, sink, doc, loaded, pc, bal, positions, pi, log,
                 outcome, visited>>

\* one iteration of for (const accountDoc of accounts): initializeAccount and
\* the push of its result
InitializeAccount ==
  /\ pc = "init"
  /\ idx <= Len(accounts)
  /\ LET a == accounts[idx]
     IN \/ \* createExchangeClient returns null, or getAccountBalance throws
           InitFailed(a)
        \/ \* the balance is fetched
           \E b \in Balances :
             IF cfg[a].initialBalance = 0
             THEN \/ \* accountDoc.initialBalance = initialBalance; save()
                     /\ cfg' = [cfg EXCEPT ![a].initialBalance = b]
                     /\ InitPushed(a, b)
                  \/ \* accountDoc.save() rejects
                     InitFailed(a)
             ELSE /\ InitPushed(a, cfg[a].initialBalance)
                  /\ UNCHANGED cfg
  /\ idx' = idx + 1
  /\ UNCHANGED <<now, db, sink, doc, loaded, pc, bal, positions, pi, log,
                 outcome, visited>>

\* after the for loop: startMonitoring returns when no account was
\* initialized, else enters while (isRunning)
StartLoop ==
  /\ pc = "init"
  /\ idx > Len(accounts)
  /\ pc' = (IF accountStates = <<>> THEN "exited" ELSE "for")
  /\ idx' = 1
  /\ UNCHANGED <<now, db, cfg, frame, st, doc, loaded, bal, positions, pi, log,
                 outcome, visited>>

\* another writer of the Account collection stores a new initialBalance
ExternalRebase ==
  /\ pc \notin {"init", "done", "exited", "halted"}
  /\ \E a \in Blockable :
       /\ cfg[a].initialBalance # RebasedBalance
       /\ cfg' = [cfg EXCEPT ![a].initialBalance = RebasedBalance]
  /\ UNCHANGED <<now, db, frame, st, doc, loaded, pc, idx, bal, positions, pi,
                 log, outcome, visited>>

StartNext ==
  \/ InitializeAccount
  \/ StartLoop
  \/ ExternalRebase
  \/ Next

StartSpec == StartInit /\ [][StartNext]_vars

\* the accounts startMonitoring monitors
Monitored == {accountStates[i] : i \in 1..Len(accountStates)}

\* a cycle of the monitoring loop is in progress
InCycle == pc \in {"reload", "gate", "rules", "pos", "done", "hung"}

\* C21: configuration failure is fatal to that account only. Each
\* initializeAccount either pushes the account, or (the exchange client, the
\* balance fetch or the first save failed) records a critical alert for it and
\* pushes nothing; an account with such an alert is never in the monitored set
\* and no cycle ever runs for it, the monitored set never changes after the
\* start-up, and every pass of the loop that runs to its sleep has entered
\* the cycle of every monitored account that is still active.
C21_ConfigFailureIsolated ==
  /\ [][ (pc = "init" /\ idx <= Len(accounts) /\ idx' = idx + 1)
           => \/ /\ accountStates' = Append(accountStates, accounts[idx])
                 /\ initAlerts' = initAlerts
              \/ /\ accountStates' = accountStates
                 /\ initAlerts' = initAlerts \cup {accounts[idx]}
                 /\ accounts[idx] \notin initAlerts ]_vars
  /\ [][ pc # "init" => accountStates' = accountStates ]_vars
  /\ [](\A a \in initAlerts :
          /\ a \notin Monitored
          /\ a \notin visited
          /\ InCycle => Cur # a)
  /\ [](pc = "sleep"
          => \A a \in Monitored : st[a].isActive => a \in visited)

\* the initialization of A failed and that of B did not, and a pass of the
\* loop over B alone has run to its sleep
C21_Witness ==
  /\ pc = "sleep"
  /\ initAlerts = {"A"}
  /\ accountStates = <<"B">>
  /\ "B" \in visited

\* C22: immutable drawdown baseline. Once an account is monitored with a
\* non-zero initialBalance, no step of the running process (cycle, rule trip,
\* block, expiry, reload, or a new initialBalance stored by another writer)
\* changes the initialBalance of its accountState, and the max-drawdown rule of
\* every cycle is decided against that value.
C22_ImmutableBaseline ==
  /\ [][ \A a \in Monitored :
           (st[a].initialBalance # 0 /\ pc' # "halted")
             => st'[a].initialBalance = st[a].initialBalance ]_vars
  /\ [][ RulesStep
           => ((\E j \in 1..Len(log') : log'[j].k = "CloseAll")
                 <=> MaxDrawdownReached(bal, st[Cur].initialBalance,
                                        cfg[Cur].maxDrawdownLimit)) ]_vars

\* another writer has stored a different initialBalance, the account was
\* reloaded, and its cycle tripped the max-drawdown rule against the baseline
\* of the initialization (against the stored value it would not have)
C22_Witness ==
  /\ pc = "done" /\ outcome = "tripped"
  /\ st[Cur].initialBalance # 0
  /\ cfg[Cur].initialBalance # st[Cur].initialBalance
  /\ \E j \in 1..Len(log) : log[j].k = "CloseAll"
  /\ \A b \in Balances :
       MaxDrawdownReached(b, st[Cur].initialBalance, cfg[Cur].maxDrawdownLimit)
         => ~MaxDrawdownReached(b, cfg[Cur].initialBalance,
                                cfg[Cur].maxDrawdownLimit)

\* what a step appends to the log of the cycle, as <<kind, level or reason>>
Emitted ==
  [j \in 1..(Len(log') - Len(log)) |->
     <<log'[Len(log) + j].k, log'[Len(log) + j].r>>]

\* the iteration of the per-position loop in progress handles a position that
\* trips the daily limit
DailyTrip ==
  /\ pc = "pos" /\ pi <= Len(positions)
  /\ PositionRule(positions[pi], cfg[Cur], doc, now) = "DAILY_LIMIT_REACHED"

\* C23: order of the daily-limit actions. For a position that trips the daily
\* per-trade limit, the iteration that runs through emits exactly
\* Alert(critical), CloseOne(DAILY_LIMIT_REACHED), RecordTrade,
\* BlockSymbolUntil(symbol, midnight), Alert(warning), in this order.
C23_DailyLimitOrder ==
  [][ (DailyTrip /\ PosStep /\ pi' = pi + 1)
        => Emitted = << <<"Alert", "critical">>,
                        <<"CloseOne", "DAILY_LIMIT_REACHED">>,
                        <<"RecordTrade", "DAILY_LIMIT_REACHED">>,
                        <<"BlockSymbolUntil", "">>,
                        <<"Alert", "warning">> >> ]_vars

\* an entry of the per-position loop
PerPositionEntry(e) == e.p # 0 /\ e.r # "MAX_TRADES_EXCEEDED"

\* the check that fires for the position of this iteration, written out:
\* leverage first, then the daily limit, then the blocked symbol
FiringCheck ==
  IF positions[pi].leverage > cfg[Cur].maxLeverage THEN "LEVERAGE_EXCEEDED"
  ELSE IF DailyLoss(pi) THEN "DAILY_LIMIT_REACHED"
  ELSE IF ActiveSymbolBlock THEN "SYMBOL_BLOCKED"
  ELSE "NONE"

\* the closes a step appends to the log, as <<reason, position>>
EmittedCloses ==
  LET new == SubSeq(log', Len(log) + 1, Len(log'))
      cls == SelectSeq(new, LAMBDA e : e.k = "CloseOne")
  IN [j \in 1..Len(cls) |-> <<cls[j].r, cls[j].p>>]

\* C24: step order within a cycle. In the log of a cycle every entry of the
\* excess-trade step (MAX_TRADES_EXCEEDED) precedes every entry of the
\* per-position loop, and the entries of the per-position loop come in input
\* order of their positions; the excess-trade step leaves the position list as
\* fetched and starts the per-position loop at its first position, closed as
\* excess or not; each iteration keeps the list and issues no close when no
\* check fires, else one close, for the first check that fires in the order
\* leverage, daily limit, blocked symbol; and a cycle that completes has gone
\* through the whole list.
C24_StepOrder ==
  /\ [](\A i, j \in 1..Len(log) :
          (i < j /\ PerPositionEntry(log[i]))
            => /\ log[j].r # "MAX_TRADES_EXCEEDED"
               /\ PerPositionEntry(log[j]) => log[i].p <= log[j].p)
  /\ []((pc = "done" /\ outcome = "completed") => pi = Len(positions) + 1)
  /\ [][ (RulesStep /\ pc' = "pos") => (positions' = positions /\ pi' = 1) ]_vars
  /\ [][ PosStep
           => /\ positions' = positions
              /\ pi' \in {pi, pi + 1}
              /\ EmittedCloses = (IF FiringCheck = "NONE" THEN <<>>
                                  ELSE << <<FiringCheck, pi>> >>) ]_vars

\* a position closed as excess has then been closed again by a check of the
\* per-position loop
C24_Witness ==
  /\ pc = "pos" /\ InChecks
  /\ \E i \in ClosedAsExcess :
       \E j \in 1..Len(log) :
         log[j].k = "CloseOne" /\ log[j].p = i /\ PerPositionEntry(log[j])

\* ---------------------------------------------------------------------------
\* One iteration of the per-position loop, over the positions an exchange may
\* report
\* ---------------------------------------------------------------------------

\* positions with and without a reported percentage, entry price, mark price
\* and leverage (0: absent)
PnLPositions ==
  [symbol : {"S1"}, side : {"long", "short"}, leverage : {0, 1, 3},
   entryPrice : {0, 50, 100}, markPrice : {0, 94, 100, 106},
   percentage : {-7, 0, 3}, timestamp : {0}, datetime : {0}]

\* the first cycle of account A has fetched one of these positions and is at
\* the start of its per-position loop
PnLInit ==
  /\ now = 0
  /\ db = [a \in Accounts |-> NoDoc]
  /\ cfg \in CfgChoices
  /\ accountStates = accounts
  /\ st = [a \in Accounts |->
           [isActive |-> TRUE, initialBalance |-> cfg[a].initialBalance]]
  /\ doc = NoDoc
  /\ loaded = NoDoc
  /\ pc = "pos"
  /\ idx = 1
  /\ bal = 0
  /\ \E q \in PnLPositions : positions = <<q>>
  /\ pi = 1
  /\ log = <<[k |-> "FetchBalance", r |-> "", p |-> 0, u |-> NULL, ok |-> TRUE,
              at |-> NULL],
             [k |-> "FetchPositions", r |-> "", p |-> 0, u |-> NULL,
              ok |-> TRUE, at |-> NULL]>>
  /\ outcome = "running"
  /\ visited = {"A"}
  /\ sink = TRUE
  /\ initAlerts = {}

PnLNext ==
  \/ CheckPosition
  \/ Finish

PnLSpec == PnLInit /\ [][PnLNext]_vars

\* the derived P&L of position q times its entry price, by the formula for
\* its side
Derived(q) ==
  IF q.side = "long"
  THEN (q.markPrice - q.entryPrice) * 100 * q.leverage
  ELSE (q.entryPrice - q.markPrice) * 100 * q.leverage

\* the iteration in progress closes its position for the daily limit
DailyClose == CloseIssued(log', pi, "DAILY_LIMIT_REACHED")

\* C25 as stated: the P&L used by the daily-limit check equals the reported
\* percentage when it is non-zero, and otherwise (for every position with an
\* entry price to divide by) the value derived from entry price, mark price and
\* leverage for its side; the daily-limit check of a position that passes the
\* leverage check fires exactly when that value is at or below the limit.
C25_DerivedOtherwise ==
  /\ [](\A i \in 1..Len(positions) :
          LET q == positions[i]
              v == tradePnLPercent(q)
          IN /\ q.percentage # 0 => v[1] = q.percentage * v[2]
             /\ (q.percentage = 0 /\ q.entryPrice # 0)
                  => v[1] * q.entryPrice = Derived(q) * v[2])
  /\ [][ (PosStep /\ positions[pi].leverage <= cfg[Cur].maxLeverage
            /\ positions[pi].percentage = 0 /\ positions[pi].entryPrice # 0)
           => (DailyClose
                 <=> Derived(positions[pi])
                       <= -Abs(cfg[Cur].dailyDrawdownLimit)
                            * positions[pi].entryPrice) ]_vars

\* C25, amended: the P&L used by the daily-limit check equals the reported
\* percentage when it is non-zero; otherwise, when both the entry price and the
\* mark price are present and non-zero, the value derived from them and the
\* leverage for the side; otherwise 0. The daily-limit check of a position that
\* passes the leverage check fires exactly when that value is at or below the
\* limit.
C25_TradePnLPercent ==
  /\ [](\A i \in 1..Len(positions) :
          LET q == positions[i]
              v == tradePnLPercent(q)
          IN /\ v[2] > 0
             /\ q.percentage # 0 => v[1] = q.percentage * v[2]
             /\ (q.percentage = 0 /\ q.entryPrice # 0 /\ q.markPrice # 0)
                  => v[1] * q.entryPrice = Derived(q) * v[2]
             /\ (q.percentage = 0 /\ (q.entryPrice = 0 \/ q.markPrice = 0))
                  => v[1] = 0)
  /\ [][ (PosStep /\ positions[pi].leverage <= cfg[Cur].maxLeverage)
           => LET q == positions[pi]
                  limit == Abs(cfg[Cur].dailyDrawdownLimit)
              IN DailyClose
                   <=> IF q.percentage # 0 THEN q.percentage <= -limit
                       ELSE IF q.entryPrice # 0 /\ q.markPrice # 0
                       THEN Derived(q) <= -limit * q.entryPrice
                       ELSE 0 <= -limit ]_vars

\* a short with no reported percentage whose derived loss reaches the limit
\* has been closed for the daily limit
C25_Witness ==
  /\ pc = "pos" /\ pi = 2
  /\ positions[1].side = "short" /\ positions[1].percentage = 0
  /\ positions[1].entryPrice # 0 /\ positions[1].markPrice # 0
  /\ Derived(positions[1])
       <= -Abs(cfg[Cur].dailyDrawdownLimit) * positions[1].entryPrice
  /\ CloseIssued(log, 1, "DAILY_LIMIT_REACHED")

\* a step of the cycle in progress that saves the account document
SaveStep ==
  /\ pc \in {"rules", "pos"} /\ pc' # "halted"
  /\ loaded' # loaded \/ outcome' = "completed"

\* the in-memory document holds a purge of symbol s that no save has written
UnsavedPurge(s) ==
  doc.blockedSymbols[s] = NULL /\ loaded.blockedSymbols[s] # NULL

\* C26: lazy purge on read. (1) When isAccountBlocked reads a blockedUntil
\* with now >= blockedUntil, the document has blockedUntil = null after the
\* read, and when isSymbolBlocked reads an entry of the position's symbol with
\* now >= until, the entry is deleted from the document. (2) Every save of the
\* cycle writes the purges made so far, and a cycle that completes ends with
\* such a save: at its end nothing purged is left unsaved. (3) Nothing else
\* removes a block: an entry leaves the stored state only by a save of the
\* account's own cycle, and leaves the document of a cycle only when it has
\* expired (now >= until).
C26_LazyPurge ==
  /\ [][ (GateStep /\ doc.blockedUntil # NULL /\ now >= doc.blockedUntil)
           => /\ pc' # "done" \/ outcome' # "gated"
              /\ doc'.blockedUntil = NULL ]_vars
  /\ [][ (PosStep /\ PassesChecks
            /\ doc.blockedSymbols[positions[pi].symbol] # NULL
            /\ now >= doc.blockedSymbols[positions[pi].symbol])
           => /\ doc'.blockedSymbols[positions[pi].symbol] = NULL
              /\ EmittedCloses = <<>> ]_vars
  /\ [][ SaveStep
           => /\ \A s \in Symbols :
                   UnsavedPurge(s) /\ doc'.blockedSymbols[s] = NULL
                     => db'[Cur].blockedSymbols[s] = NULL
              /\ (doc.blockedUntil = NULL /\ loaded.blockedUntil # NULL
                    /\ doc'.blockedUntil = NULL)
                   => db'[Cur].blockedUntil = NULL ]_vars
  /\ []((pc = "done" /\ outcome = "completed") => loaded = doc)
  /\ [][ \A a \in Accounts :
           /\ \A s \in Symbols :
                (db[a].blockedSymbols[s] # NULL /\ db'[a].blockedSymbols[s] = NULL)
                  => /\ SaveStep /\ Cur = a
                     /\ UnsavedPurge(s)
                     /\ now >= loaded.blockedSymbols[s]
           /\ (db[a].blockedUntil # NULL /\ db'[a].blockedUntil = NULL)
                => /\ SaveStep /\ Cur = a
                   /\ doc.blockedUntil = NULL /\ loaded.blockedUntil # NULL
                   /\ now >= loaded.blockedUntil ]_vars
  /\ [][ (pc \in {"gate", "rules", "pos"} /\ pc' # "halted")
           => /\ \A s \in Symbols :
                   (doc.blockedSymbols[s] # NULL /\ doc'.blockedSymbols[s] = NULL)
                     => now >= doc.blockedSymbols[s]
              /\ (doc.blockedUntil # NULL /\ doc'.blockedUntil = NULL)
                   => now >= doc.blockedUntil ]_vars

\* a cycle has read an expired block of a symbol and deleted it from its
\* document, the store still holds it, and the cycle is about to complete
C26_Witness ==
  /\ pc = "pos" /\ pi > Len(positions)
  /\ \E s \in Symbols :
       /\ UnsavedPurge(s)
       /\ db[Cur].blockedSymbols[s] = loaded.blockedSymbols[s]
       /\ now >= loaded.blockedSymbols[s]

\* the cycle in progress fetched its balance and failed to fetch its positions
PositionsFailed ==
  /\ pc \in {"rules", "pos", "done"}
  /\ Len(log) >= 2
  /\ log[2].k = "FetchPositions" /\ ~log[2].ok

\* a step of such a cycle that does not trip the max-drawdown rule
SoftStep ==
  /\ PositionsFailed /\ pc \in {"rules", "pos"} /\ pc' \notin {pc, "halted"}
  /\ \A j \in 1..Len(log') : log'[j].k # "CloseAll"

\* what every cycle does around its two fetches: a failed balance fetch
\* abandons the cycle at once, with nothing else emitted and nothing stored; a
\* failed position fetch leaves an empty list and the cycle goes on to the
\* rules, where the max-drawdown rule is decided from the fetched balance; such
\* a cycle emits no close of a position, no trade record and no symbol block
FetchOutcomes ==
  /\ [][ (GateStep /\ Len(log') = 1)
           => /\ log'[1].k = "FetchBalance" /\ ~log'[1].ok
              /\ pc' = "done" /\ outcome' = "abandoned"
              /\ db' = db /\ st' = st ]_vars
  /\ [][ (GateStep /\ Len(log') >= 2 /\ ~log'[2].ok)
           => /\ log'[1].k = "FetchBalance" /\ log'[1].ok
              /\ pc' = "rules" /\ positions' = <<>> /\ bal' \in Balances
              /\ db' = db ]_vars
  /\ [][ (RulesStep /\ PositionsFailed)
           => ((\E j \in 1..Len(log') : log'[j].k = "CloseAll")
                 <=> MaxDrawdownReached(bal, st[Cur].initialBalance,
                                        cfg[Cur].maxDrawdownLimit)) ]_vars
  /\ [](PositionsFailed
          => /\ positions = <<>>
             /\ \A j \in 1..Len(log) :
                  log[j].k \notin {"CloseOne", "RecordTrade", "BlockSymbolUntil"})

\* C27 as stated: soft failure of the position fetch. The cycle continues
\* with an empty list, issues no close, no trade record and no symbol block, the
\* max-drawdown rule is still evaluated from the fetched balance (a failed
\* balance fetch abandons the cycle before any rule), and unless that rule
\* trips the cycle leaves the stored blocks unchanged.
C27_StoredBlocksUnchanged ==
  /\ FetchOutcomes
  /\ [][ SoftStep => db' = db ]_vars

\* C27, amended: as stated, except for the stored blocks: unless the
\* max-drawdown rule trips, the cycle leaves the stored symbol blocks and every
\* other account unchanged, and changes the stored account block only by
\* removing one that had expired when the gate read it.
C27_SoftPositionFetch ==
  /\ FetchOutcomes
  /\ [][ SoftStep
           => /\ \A a \in Accounts : a # Cur => db'[a] = db[a]
              /\ db'[Cur].blockedSymbols = db[Cur].blockedSymbols
              /\ db'[Cur].isActive = db[Cur].isActive
              /\ db'[Cur].blockedUntil # db[Cur].blockedUntil
                   => /\ db'[Cur].blockedUntil = NULL
                      /\ loaded.blockedUntil # NULL
                      /\ now >= loaded.blockedUntil ]_vars

\* a cycle whose position fetch failed has tripped the max-drawdown rule
C27_Witness ==
  /\ PositionsFailed
  /\ pc = "done" /\ outcome = "tripped"
  /\ \E j \in 1..Len(log) : log[j].k = "CloseAll"

\* C28: block implies positions closed. Whenever a max-drawdown trip has left
\* the account blocked and deactivated, its close-all has closed every position
\* that was open: it neither failed part-way nor failed to fetch the positions.
C28_BlockImpliesClosed ==
  (pc = "done" /\ outcome = "tripped"
     /\ ~st[Cur].isActive /\ ~db[Cur].isActive /\ db[Cur].blockedUntil # NULL)
    => \A j \in 1..Len(log) : log[j].k = "CloseAll" => log[j].ok

\* the close orders the cycle in progress has issued for position i
CloseOrders(i) == {j \in 1..Len(log) : log[j].k = "CloseOne" /\ log[j].p = i}

\* C29: at most one close per position per cycle. In every cycle each
\* position of the snapshot has at most one close order issued for it, the
\* excess-trade step and the per-position checks taken together.
C29_AtMostOneClose ==
  \A i \in 1..Len(positions) : Cardinality(CloseOrders(i)) <= 1

\* ---------------------------------------------------------------------------
\* The first pass of while (isRunning)
\* ---------------------------------------------------------------------------

\* the steps up to the first sleep: every cycle is the first one of its
\* account, and the document it loads holds no symbol block
FirstPassNext ==
  \/ ForLoop
  \/ Return
  \/ ReloadOk
  \/ ReloadThrows
  \/ ReloadNull
  \/ MonitorStart
  \/ FetchHangs
  \/ MaxDrawdown
  \/ MaxOpenTrades
  \/ CheckPosition
  \/ Finish
  \/ Sigint
  \/ Tick
  \/ ExternalBlock

FirstPassSpec == Init /\ [][FirstPassNext]_vars

\* the cycle in progress has itself blocked the symbol of position i
BlockedInCycle(i) ==
  \E j \in 1..Len(log) :
    /\ log[j].k = "BlockSymbolUntil" /\ log[j].ok
    /\ positions[log[j].p].symbol = positions[i].symbol

\* C30: a SYMBOL_BLOCKED close only comes from an earlier cycle's block. The
\* block behind a CloseOne(SYMBOL_BLOCKED) was in the blocking state the cycle
\* loaded; a block that a daily-limit trip of the same cycle created never
\* makes the cycle close another position of that symbol for SYMBOL_BLOCKED.
\* In the first pass of the loop no cycle loads a symbol block, so no cycle
\* that has blocked a symbol goes on to close a position of it for
\* SYMBOL_BLOCKED.
C30_BlockFromEarlierCycle ==
  /\ [](pc = "gate" => \A s \in Symbols : doc.blockedSymbols[s] = NULL)
  /\ [][ (PosStep /\ EmittedCloses = << <<"SYMBOL_BLOCKED", pi>> >>)
           => ~BlockedInCycle(pi) ]_vars

\* ---------------------------------------------------------------------------
\* The bot alone: no other writer of the Account collection
\* ---------------------------------------------------------------------------

OwnNext ==
  \/ ForLoop
  \/ Return
  \/ ReloadOk
  \/ ReloadThrows
  \/ ReloadNull
  \/ Sleep
  \/ MonitorStart
  \/ FetchHangs
  \/ MaxDrawdown
  \/ MaxOpenTrades
  \/ CheckPosition
  \/ Finish
  \/ Sigint
  \/ Tick

OwnSpec == Init /\ [][OwnNext]_vars

BlockEntries ==
  {j \in 1..Len(log) : log[j].k \in {"BlockAccountUntil", "BlockSymbolUntil"}}

\* the day boundaries of the model's clock
Midnights == {m \in 0..(MaxTime + 2 * DayLen) : m % DayLen = 0}

\* u is the first day boundary strictly after t
FirstMidnightAfter(u, t) ==
  /\ u \in Midnights /\ t < u
  /\ \A m \in Midnights : t < m => u <= m

\* C32: block expiry is the next day boundary. Every account block and every
\* symbol block the bot writes at time t expires at the first midnight strictly
\* after t: t < until, until - t is at most one day, and no midnight lies
\* between t and until; the blocks held by the document and by the store never
\* reach further than one day ahead of the clock.
C32_ExpiryIsNextDayBoundary ==
  /\ \A j \in BlockEntries :
       /\ log[j].at < log[j].u
       /\ log[j].u - log[j].at <= DayLen
       /\ FirstMidnightAfter(log[j].u, log[j].at)
       /\ (log[j].at % DayLen = DayLen - 1) => log[j].u = log[j].at + 1
  /\ \A a \in Accounts :
       /\ db[a].blockedUntil # NULL
            => db[a].blockedUntil \in Midnights /\ db[a].blockedUntil - now <= DayLen
       /\ \A s \in Symbols :
            db[a].blockedSymbols[s] # NULL
              => /\ db[a].blockedSymbols[s] \in Midnights
                 /\ db[a].blockedSymbols[s] - now <= DayLen

\* an account block issued one time unit before midnight, expiring one unit
\* later, on an account that still stores a symbol block of an earlier day
C32_Witness ==
  /\ pc = "done"
  /\ \E j \in BlockEntries :
       /\ log[j].k = "BlockAccountUntil" /\ log[j].ok
       /\ log[j].at % DayLen = DayLen - 1
       /\ log[j].u = log[j].at + 1
       /\ db[Cur].blockedUntil = log[j].u
  /\ \E s \in Symbols :
       /\ db[Cur].blockedSymbols[s] # NULL
       /\ db[Cur].blockedSymbols[s] < db[Cur].blockedUntil

\* ---------------------------------------------------------------------------
\* The excess-trade ordering on snapshots with missing and equal open times
\* ---------------------------------------------------------------------------

\* the longest snapshot of this specification
MaxOrder == 3

\* positions that trip no per-position rule: with a timestamp, with a datetime
\* only, and with neither
OrderPositions ==
  { [symbol |-> "S1", side |-> "long", leverage |-> 1, entryPrice |-> 100,
     markPrice |-> 103, percentage |-> 3, timestamp |-> 2, datetime |-> 0],
    [symbol |-> "S2", side |-> "long", leverage |-> 1, entryPrice |-> 100,
     markPrice |-> 103, percentage |-> 3, timestamp |-> 0, datetime |-> 2],
    [symbol |-> "S1", side |-> "short", leverage |-> 1, entryPrice |-> 100,
     markPrice |-> 97, percentage |-> 3, timestamp |-> 1, datetime |-> 3],
    [symbol |-> "S2", side |-> "short", leverage |-> 1, entryPrice |-> 100,
     markPrice |-> 97, percentage |-> 3, timestamp |-> 0, datetime |-> 0],
    [symbol |-> "S1", side |-> "long", leverage |-> 2, entryPrice |-> 100,
     markPrice |-> 103, percentage |-> 3, timestamp |-> 0, datetime |-> 0] }

\* the snapshots a fetch may return: no position twice
OrderSnapshots ==
  { s \in UNION { [1..n -> OrderPositions] : n \in 0..MaxOrder } :
      \A i, j \in DOMAIN s : s[i] = s[j] => i = j }

\* riskParams with maxOpenTrades from 0 to 2
OrderChoices ==
  { [a \in Accounts |-> [Typical EXCEPT !.maxOpenTrades = m]] : m \in 0..2 }

\* the first cycle of account A has fetched an unchanged balance and one of
\* these snapshots and is at the rules
OrderInit ==
  /\ now = 0
  /\ db = [a \in Accounts |-> NoDoc]
  /\ cfg \in OrderChoices
  /\ accountStates = accounts
  /\ st = [a \in Accounts |->
           [isActive |-> TRUE, initialBalance |-> cfg[a].initialBalance]]
  /\ doc = NoDoc
  /\ loaded = NoDoc
  /\ pc = "rules"
  /\ idx = 1
  /\ bal = 100
  /\ positions \in OrderSnapshots
  /\ pi = 1
  /\ log = <<[k |-> "FetchBalance", r |-> "", p |-> 0, u |-> NULL, ok |-> TRUE,
              at |-> NULL],
             [k |-> "FetchPositions", r |-> "", p |-> 0, u |-> NULL,
              ok |-> TRUE, at |-> NULL]>>
  /\ outcome = "running"
  /\ visited = {"A"}
  /\ sink = TRUE
  /\ initAlerts = {}

OrderNext ==
  \/ MaxOpenTrades
  \/ CheckPosition
  \/ Finish

OrderSpec == OrderInit /\ [][OrderNext]_vars

\* position i of the snapshot has neither timestamp nor datetime
NoOpenTime(i) == positions[i].timestamp = 0 /\ positions[i].datetime = 0

\* the open time position i reports: its timestamp, else its datetime
Reported(i) ==
  IF positions[i].timestamp # 0 THEN positions[i].timestamp
  ELSE positions[i].datetime

\* the place of position i among the excess closes issued (0: none issued)
CloseRank(i) ==
  IF \E r \in 1..Len(ExcessCloses) : ExcessCloses[r].p = i
  THEN CHOOSE r \in 1..Len(ExcessCloses) : ExcessCloses[r].p = i
  ELSE 0

\* C33: missing open time in the excess-trade ordering. A position with
\* neither timestamp nor datetime sorts after every position that reports an
\* open time, so an excess close is issued for it only after one has been
\* issued for each position with an open time; positions with equal open
\* times (two without any among them) are closed in their input order.
C33_MissingOpenTimeLast ==
  PastExcess
    => /\ \A i, j \in 1..Len(positions) :
            (NoOpenTime(i) /\ ~NoOpenTime(j) /\ CloseRank(i) > 0)
              => (CloseRank(j) > 0 /\ CloseRank(j) < CloseRank(i))
       /\ \A i, j \in 1..Len(positions) :
            (i < j /\ Reported(i) = Reported(j) /\ CloseRank(j) > 0)
              => (CloseRank(i) > 0 /\ CloseRank(i) < CloseRank(j))
       /\ \A i, j \in 1..Len(positions) :
            (~NoOpenTime(i) /\ ~NoOpenTime(j) /\ Reported(i) > Reported(j)
               /\ CloseRank(j) > 0)
              => (CloseRank(i) > 0 /\ CloseRank(i) < CloseRank(j))

\* a snapshot of three with no position allowed, whose first two positions
\* have no open time: the third was closed first, then the first, then the
\* second
C33_Witness ==
  /\ pc = "pos" /\ PastExcess
  /\ Len(positions) = 3 /\ Len(ExcessCloses) = 3
  /\ NoOpenTime(1) /\ NoOpenTime(2) /\ ~NoOpenTime(3)
  /\ CloseRank(3) = 1 /\ CloseRank(1) = 2 /\ CloseRank(2) = 3

\* ---------------------------------------------------------------------------
\* The loop with another writer that deactivates accounts
\* ---------------------------------------------------------------------------

\* another writer of the Account collection (the dashboard) clears isActive of
\* an account while the bot runs
ExternalDeactivate ==
  /\ pc # "done"
  /\ \E a \in Blockable :
       /\ db[a].isActive
       /\ db' = [db EXCEPT ![a].isActive = FALSE]
  /\ UNCHANGED <<now, cfg, frame, st, doc, loaded, pc, idx, bal, positions, pi, log,
                 outcome, visited>>

DeactNext ==
  \/ OwnNext
  \/ ExternalDeactivate

DeactSpec == Init /\ [][DeactNext]_vars

\* C34: persisted deactivation is honoured. A cycle whose reload found the
\* stored account with isActive = false evaluates nothing: no fetch, no close,
\* no block, no alert (the log of the cycle stays empty), also when the flag
\* was cleared by another writer while the bot was running.
C34_DeactivationHonoured ==
  (pc \in {"gate", "rules", "pos", "hung", "done"} /\ outcome # "tripped"
     /\ ~loaded.isActive)
    => log = <<>>

\* ---------------------------------------------------------------------------
\* bot2.js: the monitor with a daily baseline and no blocks
\* ---------------------------------------------------------------------------

\* balances the exchange may report to bot2.js (0: parseFloat of an empty
\* USDT total)
Balances2 == {0, 100, 110, 120}

\* the position lists a fetch of bot2.js may return: none, one within the
\* leverage limit, and that one with one above it
Snapshots2 ==
  { <<>>,
    <<[symbol |-> "S1", side |-> "long", leverage |-> 1, entryPrice |-> 100,
       markPrice |-> 103, percentage |-> 3, timestamp |-> 2, datetime |-> 0]>>,
    <<[symbol |-> "S1", side |-> "long", leverage |-> 1, entryPrice |-> 100,
       markPrice |-> 103, percentage |-> 3, timestamp |-> 2, datetime |-> 0],
      [symbol |-> "S1", side |-> "short", leverage |-> 25, entryPrice |-> 100,
       markPrice |-> 100, percentage |-> -7, timestamp |-> 1, datetime |-> 0]>> }

\* new Date().toDateString() at clock value t: the calendar day of t
toDateString(t) == t \div DayLen

\* checkIfNewDay at clock value t
checkIfNewDay(lastDayReset, t) ==
  IF toDateString(t) # lastDayReset THEN toDateString(t) ELSE lastDayReset

\* a variant of the baseline reset that always takes initialBalance
resetDailyStartBalance_Initial(accountState) == accountState.initialBalance

\* accountState.currentBalance || accountState.initialBalance
resetDailyStartBalance(accountState) ==
  IF accountState.currentBalance # 0 THEN accountState.currentBalance
  ELSE accountState.initialBalance

\* Math.abs((pnl / base) * 100) >= limit with pnl = currentBalance - base;
\* with base = 0 the quotient is NaN (0/0, never >=) or infinite
DrawdownReached2(currentBalance, base, limit) ==
  IF base = 0 THEN currentBalance # 0
  ELSE Abs((currentBalance - base) * 100) >= limit * Abs(base)

\* the accountState initializeAccount of bot2.js returns when the first
\* balance fetch reports b; seen is the balance the account's previous cycle
\* observed (NULL: none), kept for the properties
InitialState2(initialBalance, b) ==
  [isActive |-> TRUE, initialBalance |-> initialBalance,
   dailyStartBalance |-> b, currentBalance |-> b,
   lastDayReset |-> toDateString(0), lastDayResetOld |-> toDateString(0),
   accountDoc |-> [isActive |-> TRUE], seen |-> NULL]

\* the state after startMonitoring of bot2.js has initialized the accounts
Init2 ==
  /\ now = 0
  /\ db = [a \in Accounts |-> NoDoc]
  /\ cfg \in CfgChoices
  /\ accountStates = accounts
  /\ st \in [Accounts -> {InitialState2(100, b) : b \in {100, 120}}]
  /\ doc = NoDoc
  /\ loaded = NoDoc
  /\ pc = "for"
  /\ idx = 1
  /\ bal = 0
  /\ positions = <<>>
  /\ pi = 1
  /\ log = <<>>
  /\ outcome = "none"
  /\ visited = {}
  /\ sink = TRUE
  /\ initAlerts = {}

\* what no step of bot2.js's loop touches
frame2 == <<cfg, accountStates, doc, loaded, pi, visited, sink, initAlerts>>

\* for (const accountState of accountStates) of bot2.js
ForLoop2 ==
  /\ pc = "for"
  /\ IF idx > Len(accountStates) THEN pc' = "sleep" /\ idx' = idx
     ELSE IF ~st[Cur].isActive THEN pc' = "for" /\ idx' = idx + 1
     ELSE pc' = "monitor" /\ idx' = idx
  /\ UNCHANGED <<now, db, frame2, st, bal, positions, log, outcome>>

\* monitorAccount of bot2.js up to its first await: the new-day check and the
\* reset of the daily baseline
NewDay ==
  /\ pc = "monitor"
  /\ LET lastDayReset == checkIfNewDay(st[Cur].lastDayReset, now)
         isNewDay == lastDayReset # st[Cur].lastDayResetOld
     IN st' = [st EXCEPT ![Cur] =
                 IF isNewDay
                 THEN [@ EXCEPT !.lastDayReset = lastDayReset,
                                !.dailyStartBalance = resetDailyStartBalance(st[Cur]),
                                !.lastDayResetOld = lastDayReset]
                 ELSE [@ EXCEPT !.lastDayReset = lastDayReset]]
  /\ pc' = "fetch"
  /\ outcome' = "running"
  /\ UNCHANGED <<now, db, frame2, idx, bal, positions, log>>

\* getAccountBalance and getOpenPositions of bot2.js: a failed balance fetch
\* is rethrown into the catch of monitorAccount, a failed position fetch yields
\* []; then accountState.currentBalance is updated
Fetch2 ==
  /\ pc = "fetch"
  /\ \/ /\ log' = log \o <<Entry("FetchBalance", "", 0, NULL, FALSE)>>
        /\ st' = [st EXCEPT ![Cur].seen = NULL]
        /\ outcome' = "abandoned"
        /\ pc' = "done"
        /\ UNCHANGED <<bal, positions>>
     \/ \E b \in Balances2, ps \in Snapshots2 :
          /\ bal' = b
          /\ positions' = ps
          /\ log' = log \o <<Entry("FetchBalance", "", 0, NULL, TRUE),
                             Entry("FetchPositions", "", 0, NULL, TRUE)>>
          /\ st' = [st EXCEPT ![Cur].currentBalance = b, ![Cur].seen = b]
          /\ pc' = "save"
          /\ UNCHANGED outcome
  /\ UNCHANGED <<now, db, frame2, idx>>

\* saveMetrics (swallows its failure), then accountDoc.lastCheck and
\* accountDoc.save(), whose rejection ends the cycle in the catch
SaveMetrics2 ==
  /\ pc = "save"
  /\ \/ /\ log' = log \o <<Entry("SaveMetrics", "", 0, NULL, sink),
                           Entry("SaveLastCheck", "", 0, NULL, TRUE)>>
        /\ db' = [db EXCEPT ![Cur].isActive = st[Cur].accountDoc.isActive]
        /\ pc' = "daily"
        /\ UNCHANGED outcome
     \/ /\ log' = log \o <<Entry("SaveMetrics", "", 0, NULL, sink),
                           Entry("SaveLastCheck", "", 0, NULL, FALSE)>>
        /\ outcome' = "abandoned"
        /\ pc' = "done"
        /\ UNCHANGED db
  /\ UNCHANGED <<now, frame2, st, idx, bal, positions>>

\* RISK CHECK 1 of bot2.js: daily drawdown limit
DailyDrawdown2 ==
  /\ pc = "daily"
  /\ IF DrawdownReached2(bal, st[Cur].dailyStartBalance,
                         cfg[Cur].dailyDrawdownLimit)
     THEN \E allClosed \in BOOLEAN :
            log' = log \o <<Entry("Alert", "critical", 0, NULL, sink),
                            Entry("CloseAll", "DAILY_DRAWDOWN", 0, NULL, allClosed)>>
     ELSE UNCHANGED log
  /\ pc' = "max"
  /\ UNCHANGED <<now, db, frame2, st, idx, bal, positions, outcome>>

\* RISK CHECK 2 of bot2.js: maximum drawdown limit: close all, deactivate the
\* stored account and the accountState
MaxDrawdown2 ==
  /\ pc = "max"
  /\ IF DrawdownReached2(bal, st[Cur].initialBalance, cfg[Cur].maxDrawdownLimit)
     THEN \E allClosed \in BOOLEAN :
            \/ /\ log' = log \o
                    <<Entry("Alert", "critical", 0, NULL, sink),
                      Entry("CloseAll", "MAX_DRAWDOWN", 0, NULL, allClosed),
                      Entry("Deactivate", "", 0, NULL, TRUE),
                      Entry("Alert", "critical", 0, NULL, sink)>>
               /\ db' = [db EXCEPT ![Cur].isActive = FALSE]
               /\ st' = [st EXCEPT ![Cur].accountDoc.isActive = FALSE,
                                   ![Cur].isActive = FALSE]
               /\ outcome' = "tripped"
               /\ pc' = "warn"
            \/ /\ log' = log \o
                    <<Entry("Alert", "critical", 0, NULL, sink),
                      Entry("CloseAll", "MAX_DRAWDOWN", 0, NULL, allClosed),
                      Entry("Deactivate", "", 0, NULL, FALSE)>>
               /\ st' = [st EXCEPT ![Cur].accountDoc.isActive = FALSE]
               /\ outcome' = "abandoned"
               /\ pc' = "done"
               /\ UNCHANGED db
     ELSE /\ pc' = "warn"
          /\ UNCHANGED <<db, st, log, outcome>>
  /\ UNCHANGED <<now, frame2, idx, bal, positions>>

\* the warnings of one snapshot: one for each position above maxLeverage
LeverageWarnings(ps, maxLeverage) ==
  LET over == SelectSeq(ps, LAMBDA q : q.leverage > maxLeverage)
  IN [i \in 1..Len(over) |-> Entry("Alert", "warning", 0, NULL, sink)]

\* RISK CHECK 3 and 4 of bot2.js: warnings only
Warnings2 ==
  /\ pc = "warn"
  /\ log' = log
              \o (IF Len(positions) > cfg[Cur].maxOpenTrades
                  THEN <<Entry("Alert", "warning", 0, NULL, sink)>> ELSE <<>>)
              \o LeverageWarnings(positions, cfg[Cur].maxLeverage)
  /\ pc' = "done"
  /\ outcome' = IF outcome = "running" THEN "completed" ELSE outcome
  /\ UNCHANGED <<now, db, frame2, st, idx, bal, positions>>

\* monitorAccount of bot2.js has returned
Return2 ==
  /\ pc = "done"
  /\ pc' = "for"
  /\ idx' = idx + 1
  /\ bal' = 0 /\ positions' = <<>> /\ log' = <<>> /\ outcome' = "none"
  /\ UNCHANGED <<now, db, frame2, st>>

\* await sleep(CONFIG.CHECK_INTERVAL) of bot2.js
Sleep2 ==
  /\ pc = "sleep"
  /\ pc' = "for"
  /\ idx' = 1
  /\ UNCHANGED <<now, db, frame2, st, bal, positions, log, outcome>>

\* time passes
Tick2 ==
  /\ pc # "done"
  /\ now < MaxTime
  /\ now' = now + 1
  /\ UNCHANGED <<db, frame2, st, pc, idx, bal, positions, log, outcome>>

Next2 ==
  \/ ForLoop2
  \/ NewDay
  \/ Fetch2
  \/ SaveMetrics2
  \/ DailyDrawdown2
  \/ MaxDrawdown2
  \/ Warnings2
  \/ Return2
  \/ Sleep2
  \/ Tick2

Spec2 == Init2 /\ [][Next2]_vars

\* the close-alls of the cycle in progress issued for reason r
CloseAlls(r) == SelectSeq(log, LAMBDA e : e.k = "CloseAll" /\ e.r = r)

\* the balance of the cycle has fallen by at least limit percent from base
FallenBy(base, limit) == (base - bal) * 100 >= limit * base

\* C35: drawdown rules fire only on losses. In bot2.js a close-all for the
\* daily drawdown rule is issued only when the balance has fallen by at least
\* dailyDrawdownLimit percent from dailyStartBalance, and the max-drawdown
\* shutdown only when it has fallen by at least maxDrawdownLimit percent from
\* initialBalance; a gain triggers neither.
C35_OnlyOnLosses ==
  (pc \in {"max", "warn", "done"} /\ cfg[Cur].dailyDrawdownLimit > 0
     /\ cfg[Cur].maxDrawdownLimit > 0)
    => /\ CloseAlls("DAILY_DRAWDOWN") # <<>>
            => FallenBy(st[Cur].dailyStartBalance, cfg[Cur].dailyDrawdownLimit)
       /\ CloseAlls("MAX_DRAWDOWN") # <<>>
            => FallenBy(st[Cur].initialBalance, cfg[Cur].maxDrawdownLimit)

\* the new-day check of account a's cycle, the only synchronous prefix of
\* monitorAccount in bot2.js
ResetStep(a) ==
  /\ pc = "monitor" /\ pc' = "fetch"
  /\ idx <= Len(accountStates) /\ Cur = a

\* the clock is in another calendar day than the one account a last saw
ObservesNewDay(a) == now \div DayLen # st[a].lastDayReset

\* C36 as stated: dailyStartBalance changes only in the first cycle that
\* observes a new calendar day, and is then set to the balance observed in the
\* account's previous cycle (or initialBalance if that is zero).
C36_ResetToPreviousCycleBalance ==
  [][ \A a \in Accounts :
        /\ st'[a].dailyStartBalance # st[a].dailyStartBalance
             => (ResetStep(a) /\ ObservesNewDay(a))
        /\ (ResetStep(a) /\ ObservesNewDay(a))
             => st'[a].dailyStartBalance =
                  (IF st[a].seen = 0 THEN st[a].initialBalance ELSE st[a].seen) ]_vars

\* C36, amended: dailyStartBalance changes only in the new-day check of a cycle
\* that finds the clock in another calendar day than the account last saw; that
\* cycle sets it to accountState.currentBalance, the balance the account last
\* observed (in the latest cycle whose balance fetch succeeded, else at
\* initialization), or to initialBalance if that is zero, and records the day,
\* so that no later cycle of the same day resets it again; in every other
\* cycle it is left unchanged.
C36_ResetToLastObservedBalance ==
  /\ [][ \A a \in Accounts :
           /\ st'[a].dailyStartBalance # st[a].dailyStartBalance
                => (ResetStep(a) /\ ObservesNewDay(a))
           /\ ResetStep(a)
                => IF ObservesNewDay(a)
                   THEN /\ st'[a].dailyStartBalance =
                             (IF st[a].currentBalance # 0
                              THEN st[a].currentBalance
                              ELSE st[a].initialBalance)
                        /\ st'[a].lastDayReset = now \div DayLen
                        /\ st'[a].lastDayResetOld = now \div DayLen
                   ELSE st'[a] = st[a]
           /\ st'[a].seen = NULL => st'[a].currentBalance = st[a].currentBalance ]_vars
  /\ [](\A a \in Accounts :
          /\ st[a].lastDayResetOld = st[a].lastDayReset
          /\ st[a].lastDayReset <= now \div DayLen
          /\ st[a].seen # NULL => st[a].currentBalance = st[a].seen)

\* the first cycle of the second day has reset the baseline of account A to
\* the 110 its previous cycle observed
C36_Witness ==
  /\ pc = "fetch" /\ Cur = "A"
  /\ now \div DayLen = 1 /\ st["A"].lastDayReset = 1
  /\ st["A"].seen = 110 /\ st["A"].dailyStartBalance = 110

====
